---------------------------- MODULE Spec2Model ----------------------------
(***************************************************************************)
(* HCSnode secure datagram channel: TransportAES256 (AES-256-GCM framing)  *)
(* wrapped around UdpTransport (Boost.Asio UDP), with a KeyProvider.       *)
(*                                                                         *)
(* Two nodes, each owning one TransportAES256 over one UdpTransport, talk  *)
(* over an unreliable network that may replay, modify or inject datagrams. *)
(* Byte vectors are sequences over 0..255.  The AES block cipher behind    *)
(* OpenSSL's EVP interface is replaced by a keyed byte function; the GCM   *)
(* construction around it (counter-mode XOR, tag = authenticator of nonce  *)
(* and ciphertext masked with a key dependent block) is kept.              *)
(***************************************************************************)
EXTENDS Integers, Sequences, FiniteSets, TLC

(***************************************************************************)
(* Bounds of the model.                                                    *)
(***************************************************************************)
MaxSends == 2
MaxLen == 1
MaxRecv == 2
MaxPending == 1
MaxTampered == 1
MaxSalt == 17
MaxReads == 2
MaxStarts == 1
MaxRuns == 2
MaxMediaSends == 1
MaxNodeStarts == 2
MaxClock == 12
MaxTopologyCalls == 3
MaxPublishes == 2
MaxTimerRuns == 3
MaxArmed == 2

(***************************************************************************)
(* Program constants.                                                      *)
(***************************************************************************)
AES256_KEY_SIZE == 32
GCM_IV_SIZE == 12
GCM_TAG_SIZE == 16
ENCRYPTED_OVERHEAD == GCM_IV_SIZE + GCM_TAG_SIZE
ByteRange == 256
CounterBytes == 8

Byte == 0 .. (ByteRange - 1)

Nodes == {"a", "b"}

(***************************************************************************)
(* The session explored: a sends, b receives.                              *)
(***************************************************************************)
Senders == {"a"}

Receivers == {"b"}

(***************************************************************************)
(* Endpoint: address and port.                                             *)
(***************************************************************************)
Endpoint(addr, p) == [address |-> addr, port |-> p]

EndpointOf(n) == IF n = "a" THEN Endpoint("10.0.0.1", 5000) ELSE Endpoint("10.0.0.2", 5000)

SpoofedEndpoint == Endpoint("10.0.0.9", 4000)

Destinations == {EndpointOf(n) : n \in Nodes}

(***************************************************************************)
(* Inputs.                                                                 *)
(***************************************************************************)
Fill(len, v) == [i \in 1 .. len |-> v]

KeyAA == Fill(AES256_KEY_SIZE, 170)

KeyBB == Fill(AES256_KEY_SIZE, 187)

KeyShort == Fill(16, 170)

ProviderKeys == {KeyAA, KeyBB, KeyShort}

(***************************************************************************)
(* A uint64_t is kept as its CounterBytes bytes, least significant first   *)
(* (TLC's integers are 32 bits wide).  U64FromU32 widens a 32-bit value    *)
(* given by its four bytes; U64Shr8(v, i) is (uint8_t)(v >> (i * 8));      *)
(* U64Inc is ++ on 64 bits.                                                *)
(***************************************************************************)
U64FromU32_SignExtended(b0, b1, b2, b3) ==
    LET high == IF b3 >= 128 THEN 255 ELSE 0
    IN  <<b0, b1, b2, b3, high, high, high, high>>

U64FromU32(b0, b1, b2, b3) == <<b0, b1, b2, b3, 0, 0, 0, 0>>

U64Shr8(v, i) == v[i + 1]

RECURSIVE U64IncFrom(_, _)
U64IncFrom(v, k) ==
    IF k > CounterBytes THEN v
    ELSE IF v[k] = ByteRange - 1 THEN U64IncFrom([v EXCEPT ![k] = 0], k + 1)
    ELSE [v EXCEPT ![k] = @ + 1]

U64Inc(v) == U64IncFrom(v, 1)

Seeds == {U64FromU32(0, 0, 0, 0), U64FromU32(255, 0, 0, 0), U64FromU32(255, 255, 255, 255)}

PlainBytes == {72}

RECURSIVE SeqsUpTo(_, _)
SeqsUpTo(S, len) ==
    IF len = 0 THEN {<<>>}
    ELSE LET shorter == SeqsUpTo(S, len - 1)
         IN  shorter \cup {Append(s, x) : s \in {t \in shorter : Len(t) = len - 1}, x \in S}

Plaintexts == SeqsUpTo(PlainBytes, MaxLen)

Callbacks == {"c1", "cThrow"}

AllCallbacks == Callbacks \cup {"cThrowRuntime"}

(***************************************************************************)
(* Bit operations on bytes.                                                *)
(***************************************************************************)
RECURSIVE XorBits(_, _, _)
XorBits(x, y, bits) ==
    IF bits = 0 THEN 0
    ELSE ((x + y) % 2) + 2 * XorBits(x \div 2, y \div 2, bits - 1)

XorTable == [x \in 0 .. ByteRange - 1 |-> [y \in 0 .. ByteRange - 1 |-> XorBits(x, y, 8)]]

Xor8(x, y) == XorTable[x][y]

RECURSIVE Pow(_, _)
Pow(b, e) == IF e = 0 THEN 1 ELSE b * Pow(b, e - 1)

FlipBit(packet, pos, bit) ==
    LET mask == Pow(2, bit)
    IN  [packet EXCEPT ![pos] = IF (@ \div mask) % 2 = 1 THEN @ - mask ELSE @ + mask]

RECURSIVE WeightedSum(_, _)
WeightedSum(s, w) == IF s = <<>> THEN 0 ELSE w * Head(s) + WeightedSum(Tail(s), w + 2)

(***************************************************************************)
(* AES-256-GCM as used through EVP_aes_256_gcm().  AesByte stands for the  *)
(* block cipher output byte i of counter block blk under (key, iv).        *)
(***************************************************************************)
KeyDigest(key) == WeightedSum(key, 1) % 251

AesSeed(key, iv) == (KeyDigest(key) * 7 + WeightedSum(iv, 1) * 3 + 1) % ByteRange

AesByte(seed, blk, i) == (seed + blk * 5 + i * 11) % ByteRange

GcmCrypt(key, iv, text) ==
    LET seed == AesSeed(key, iv)
    IN  [i \in 1 .. Len(text) |-> Xor8(text[i], AesByte(seed, 1 + ((i - 1) \div 16), i))]

RECURSIVE XorLane(_, _, _)
XorLane(ct, i, lane) ==
    IF i > Len(ct) THEN 0
    ELSE Xor8(IF i % 3 = lane THEN ct[i] ELSE 0, XorLane(ct, i + 1, lane))

GcmAuthBlock(iv, ct) ==
    [j \in 1 .. GCM_TAG_SIZE |->
        IF j <= GCM_IV_SIZE THEN iv[j]
        ELSE IF j = GCM_IV_SIZE + 1 THEN Len(ct) % ByteRange
        ELSE XorLane(ct, 1, j % 3)]

GcmTag(key, iv, ct) ==
    LET seed == AesSeed(key, iv)
        auth == GcmAuthBlock(iv, ct)
    IN  [j \in 1 .. GCM_TAG_SIZE |-> Xor8(auth[j], AesByte(seed, 0, j))]

(***************************************************************************)
(* TransportAES256::Encrypt, lines 117-127: the 12-byte IV.  C++ index k   *)
(* is TLA+ index k + 1; the loop writes iv[GCM_IV_SIZE - 1 - i] for        *)
(* i = 0 .. 7 with (uint8_t)(iv_value >> (i * 8)).                         *)
(***************************************************************************)
IvPrefix == <<0, 0, 0, 1>>

MakeIv(iv_value) ==
    [j \in 1 .. GCM_IV_SIZE |->
        IF j <= GCM_IV_SIZE - CounterBytes THEN IvPrefix[j]
        ELSE U64Shr8(iv_value, GCM_IV_SIZE - j)]

(***************************************************************************)
(* Encrypt that reads the counter without incrementing it.                 *)
(***************************************************************************)
Encrypt_NoIncrement(key_bytes, counter, plaintext, prim_ok) ==
    IF Len(key_bytes) # AES256_KEY_SIZE
    THEN [thrown |-> "key", packet |-> <<>>, iv_value |-> counter, counter |-> counter]
    ELSE LET iv == MakeIv(counter)
             ciphertext == GcmCrypt(key_bytes, iv, plaintext)
             tag == GcmTag(key_bytes, iv, ciphertext)
         IN  IF ~prim_ok
             THEN [thrown |-> "prim", packet |-> <<>>, iv_value |-> counter, counter |-> counter]
             ELSE [thrown |-> "none", packet |-> iv \o ciphertext \o tag,
                   iv_value |-> counter, counter |-> counter]

(***************************************************************************)
(* Encrypt that increments the counter only once the packet is built.      *)
(***************************************************************************)
Encrypt_IncrementOnSuccess(key_bytes, counter, plaintext, prim_ok) ==
    IF Len(key_bytes) # AES256_KEY_SIZE
    THEN [thrown |-> "key", packet |-> <<>>, iv_value |-> counter, counter |-> counter]
    ELSE LET iv == MakeIv(counter)
             ciphertext == GcmCrypt(key_bytes, iv, plaintext)
             tag == GcmTag(key_bytes, iv, ciphertext)
         IN  IF ~prim_ok
             THEN [thrown |-> "prim", packet |-> <<>>, iv_value |-> counter, counter |-> counter]
             ELSE [thrown |-> "none", packet |-> iv \o ciphertext \o tag,
                   iv_value |-> counter, counter |-> U64Inc(counter)]

(***************************************************************************)
(* Encrypt that appends the tag before the ciphertext.                     *)
(***************************************************************************)
Encrypt_TagFirst(key_bytes, counter, plaintext, prim_ok) ==
    IF Len(key_bytes) # AES256_KEY_SIZE
    THEN [thrown |-> "key", packet |-> <<>>, iv_value |-> counter, counter |-> counter]
    ELSE LET iv == MakeIv(counter)
             ciphertext == GcmCrypt(key_bytes, iv, plaintext)
             tag == GcmTag(key_bytes, iv, ciphertext)
         IN  IF ~prim_ok
             THEN [thrown |-> "prim", packet |-> <<>>, iv_value |-> counter,
                   counter |-> U64Inc(counter)]
             ELSE [thrown |-> "none", packet |-> iv \o tag \o ciphertext,
                   iv_value |-> counter, counter |-> U64Inc(counter)]

(***************************************************************************)
(* TransportAES256::Encrypt.  Returns what was thrown ("none" when it      *)
(* returned), the packet and the counter the call leaves behind.           *)
(***************************************************************************)
Encrypt(key_bytes, counter, plaintext, prim_ok) ==
    IF Len(key_bytes) # AES256_KEY_SIZE
    THEN [thrown |-> "key", packet |-> <<>>, iv_value |-> counter, counter |-> counter]
    ELSE LET iv_value == counter
             next == U64Inc(counter)
             iv == MakeIv(iv_value)
             ciphertext == GcmCrypt(key_bytes, iv, plaintext)
             tag == GcmTag(key_bytes, iv, ciphertext)
         IN  IF ~prim_ok
             THEN [thrown |-> "prim", packet |-> <<>>, iv_value |-> iv_value, counter |-> next]
             ELSE [thrown |-> "none", packet |-> iv \o ciphertext \o tag,
                   iv_value |-> iv_value, counter |-> next]

(***************************************************************************)
(* The split with the ciphertext taken one byte early.                     *)
(***************************************************************************)
SplitPacket_EarlyCiphertext(encrypted_packet) ==
    LET size == Len(encrypted_packet)
        tag_offset == size - GCM_TAG_SIZE
    IN  [iv |-> SubSeq(encrypted_packet, 1, GCM_IV_SIZE),
         ciphertext |-> SubSeq(encrypted_packet, GCM_IV_SIZE, tag_offset - 1),
         tag |-> SubSeq(encrypted_packet, tag_offset + 1, size)]

(***************************************************************************)
(* TransportAES256::Decrypt, lines 217-226: the split of a packet.         *)
(***************************************************************************)
SplitPacket(encrypted_packet) ==
    LET size == Len(encrypted_packet)
        tag_offset == size - GCM_TAG_SIZE
    IN  [iv |-> SubSeq(encrypted_packet, 1, GCM_IV_SIZE),
         ciphertext |-> SubSeq(encrypted_packet, GCM_IV_SIZE + 1, tag_offset),
         tag |-> SubSeq(encrypted_packet, tag_offset + 1, size)]

(***************************************************************************)
(* Decrypt with the result of EVP_DecryptFinal_ex ignored.                 *)
(***************************************************************************)
Decrypt_IgnoresFinal(key_bytes, encrypted_packet, prim_ok) ==
    IF Len(encrypted_packet) < ENCRYPTED_OVERHEAD
    THEN [thrown |-> "short", plaintext |-> <<>>]
    ELSE IF Len(key_bytes) # AES256_KEY_SIZE
    THEN [thrown |-> "key", plaintext |-> <<>>]
    ELSE LET parts == SplitPacket(encrypted_packet)
         IN  IF ~prim_ok
             THEN [thrown |-> "prim", plaintext |-> <<>>]
             ELSE [thrown |-> "none",
                   plaintext |-> GcmCrypt(key_bytes, parts.iv, parts.ciphertext)]

(***************************************************************************)
(* Decrypt that verifies only the first four bytes of the tag.             *)
(***************************************************************************)
Decrypt_TruncatedTag(key_bytes, encrypted_packet, prim_ok) ==
    IF Len(encrypted_packet) < ENCRYPTED_OVERHEAD
    THEN [thrown |-> "short", plaintext |-> <<>>]
    ELSE IF Len(key_bytes) # AES256_KEY_SIZE
    THEN [thrown |-> "key", plaintext |-> <<>>]
    ELSE LET parts == SplitPacket(encrypted_packet)
         IN  IF ~prim_ok
             THEN [thrown |-> "prim", plaintext |-> <<>>]
             ELSE IF SubSeq(parts.tag, 1, 4) #
                     SubSeq(GcmTag(key_bytes, parts.iv, parts.ciphertext), 1, 4)
             THEN [thrown |-> "auth", plaintext |-> <<>>]
             ELSE [thrown |-> "none",
                   plaintext |-> GcmCrypt(key_bytes, parts.iv, parts.ciphertext)]

(***************************************************************************)
(* Decrypt with the length test written <= instead of <.                   *)
(***************************************************************************)
Decrypt_ShortOffByOne(key_bytes, encrypted_packet, prim_ok) ==
    IF Len(encrypted_packet) <= ENCRYPTED_OVERHEAD
    THEN [thrown |-> "short", plaintext |-> <<>>]
    ELSE IF Len(key_bytes) # AES256_KEY_SIZE
    THEN [thrown |-> "key", plaintext |-> <<>>]
    ELSE LET parts == SplitPacket(encrypted_packet)
         IN  IF ~prim_ok
             THEN [thrown |-> "prim", plaintext |-> <<>>]
             ELSE IF parts.tag # GcmTag(key_bytes, parts.iv, parts.ciphertext)
             THEN [thrown |-> "auth", plaintext |-> <<>>]
             ELSE [thrown |-> "none",
                   plaintext |-> GcmCrypt(key_bytes, parts.iv, parts.ciphertext)]

(***************************************************************************)
(* TransportAES256::Decrypt.  thrown is "none" or the std::runtime_error   *)
(* it raised: "short", "key", "prim" (an EVP call failed) or "auth".       *)
(***************************************************************************)
Decrypt(key_bytes, encrypted_packet, prim_ok) ==
    IF Len(encrypted_packet) < ENCRYPTED_OVERHEAD
    THEN [thrown |-> "short", plaintext |-> <<>>]
    ELSE IF Len(key_bytes) # AES256_KEY_SIZE
    THEN [thrown |-> "key", plaintext |-> <<>>]
    ELSE LET parts == SplitPacket(encrypted_packet)
         IN  IF ~prim_ok
             THEN [thrown |-> "prim", plaintext |-> <<>>]
             ELSE IF parts.tag # GcmTag(key_bytes, parts.iv, parts.ciphertext)
             THEN [thrown |-> "auth", plaintext |-> <<>>]
             ELSE [thrown |-> "none",
                   plaintext |-> GcmCrypt(key_bytes, parts.iv, parts.ciphertext)]

(***************************************************************************)
(* The application's receive callbacks: what a call of cb raises.          *)
(***************************************************************************)
CallbackThrows(cb) ==
    IF cb = "cThrow" THEN "logic_error"
    ELSE IF cb = "cThrowRuntime" THEN "runtime_error"
    ELSE "none"

(***************************************************************************)
(* DecryptAndHandle that calls the callback from its catch block too.      *)
(***************************************************************************)
DecryptAndHandle_CallsOnFailure(key_bytes, callback, encrypted_data, sender, prim_ok) ==
    LET d == Decrypt(key_bytes, encrypted_data, prim_ok)
    IN  IF callback = "none"
        THEN [decrypt |-> d.thrown, calls |-> <<>>, escaped |-> "none",
              cerr |-> IF d.thrown # "none"
                       THEN <<"TransportAES256::Decrypt error">>
                       ELSE <<>>]
        ELSE [decrypt |-> d.thrown,
              calls |-> <<[cb |-> callback, data |-> d.plaintext, sender |-> sender]>>,
              escaped |-> IF CallbackThrows(callback) = "runtime_error" THEN "none"
                          ELSE CallbackThrows(callback),
              cerr |-> IF d.thrown # "none" \/ CallbackThrows(callback) = "runtime_error"
                       THEN <<"TransportAES256::Decrypt error">>
                       ELSE <<>>]

(***************************************************************************)
(* DecryptAndHandle that hands the callback the packet it received.        *)
(***************************************************************************)
DecryptAndHandle_PassesPacket(key_bytes, callback, encrypted_data, sender, prim_ok) ==
    LET d == Decrypt(key_bytes, encrypted_data, prim_ok)
    IN  IF d.thrown # "none"
        THEN [decrypt |-> d.thrown, calls |-> <<>>, escaped |-> "none",
              cerr |-> <<"TransportAES256::Decrypt error">>]
        ELSE IF callback = "none"
        THEN [decrypt |-> "none", calls |-> <<>>, escaped |-> "none", cerr |-> <<>>]
        ELSE [decrypt |-> "none",
              calls |-> <<[cb |-> callback, data |-> encrypted_data, sender |-> sender]>>,
              escaped |-> IF CallbackThrows(callback) = "runtime_error" THEN "none"
                          ELSE CallbackThrows(callback),
              cerr |-> IF CallbackThrows(callback) = "runtime_error"
                       THEN <<"TransportAES256::Decrypt error">>
                       ELSE <<>>]

(***************************************************************************)
(* TransportAES256::DecryptAndHandle.  calls lists the invocations of the  *)
(* user callback; escaped is the exception that leaves the function; cerr  *)
(* is what the catch block for std::runtime_error, which encloses the call *)
(* of the callback too, writes to std::cerr.                               *)
(***************************************************************************)
DecryptAndHandle(key_bytes, callback, encrypted_data, sender, prim_ok) ==
    LET d == Decrypt(key_bytes, encrypted_data, prim_ok)
    IN  IF d.thrown # "none"
        THEN [decrypt |-> d.thrown, calls |-> <<>>, escaped |-> "none",
              cerr |-> <<"TransportAES256::Decrypt error">>]
        ELSE IF callback = "none"
        THEN [decrypt |-> "none", calls |-> <<>>, escaped |-> "none", cerr |-> <<>>]
        ELSE [decrypt |-> "none",
              calls |-> <<[cb |-> callback, data |-> d.plaintext, sender |-> sender]>>,
              escaped |-> IF CallbackThrows(callback) = "runtime_error" THEN "none"
                          ELSE CallbackThrows(callback),
              cerr |-> IF CallbackThrows(callback) = "runtime_error"
                       THEN <<"TransportAES256::Decrypt error">>
                       ELSE <<>>]

(***************************************************************************)
(* PBKDF2KeyProvider.  The constants of the provider, the iteration count  *)
(* the protocol design document states, and the inputs of construction:    *)
(* passwords, supplied salts of every length 0 .. MaxSalt, and the salts   *)
(* RAND_bytes may produce.                                                 *)
(***************************************************************************)
PBKDF2_ITERATIONS == 310000
PBKDF2_SALT_SIZE == 16
PBKDF2_OUTPUT_SIZE == AES256_KEY_SIZE
DesignDocIterations == 2048

Passwords == {<<>>, <<104, 99, 115>>}

SuppliedSalts ==
    {Fill(len, 0) : len \in 0 .. MaxSalt} \cup {Fill(PBKDF2_SALT_SIZE, 90)}

RandomSalts == {Fill(PBKDF2_SALT_SIZE, 17), Fill(PBKDF2_SALT_SIZE, 34)}

(***************************************************************************)
(* PKCS5_PBKDF2_HMAC with EVP_sha256: size bytes determined by password,   *)
(* salt and iteration count.                                               *)
(***************************************************************************)
PKCS5_PBKDF2_HMAC(password, salt, iterations, size) ==
    [i \in 1 .. size |->
        (WeightedSum(password, 1) * 13 + WeightedSum(salt, 1) * 7
            + (iterations % 251) * 5 + i * 3) % ByteRange]

(***************************************************************************)
(* What construction leaves when the constructor throws: no object.        *)
(***************************************************************************)
NoProvider(password, salt_bytes, rand_ok, kdf_ok, thrown, iterations) ==
    [password |-> password, salt_bytes |-> salt_bytes, rand_ok |-> rand_ok,
     kdf_ok |-> kdf_ok, thrown |-> thrown, salt_ |-> <<>>, derived_key_ |-> <<>>,
     iterations |-> iterations]

(***************************************************************************)
(* The constructor without the test of the supplied salt's size.           *)
(***************************************************************************)
PBKDF2KeyProvider_NoSaltCheck(password, salt_bytes, random_salt, rand_ok, kdf_ok) ==
    IF salt_bytes = <<>> /\ ~rand_ok
    THEN NoProvider(password, salt_bytes, rand_ok, kdf_ok, "rand", 0)
    ELSE LET salt == IF salt_bytes = <<>> THEN random_salt ELSE salt_bytes
         IN  IF ~kdf_ok
             THEN NoProvider(password, salt_bytes, rand_ok, kdf_ok, "kdf",
                             PBKDF2_ITERATIONS)
             ELSE [password |-> password, salt_bytes |-> salt_bytes,
                   rand_ok |-> rand_ok, kdf_ok |-> kdf_ok, thrown |-> "none",
                   salt_ |-> salt,
                   derived_key_ |-> PKCS5_PBKDF2_HMAC(password, salt, PBKDF2_ITERATIONS,
                                                      PBKDF2_OUTPUT_SIZE),
                   iterations |-> PBKDF2_ITERATIONS]

(***************************************************************************)
(* The constructor with the result of PKCS5_PBKDF2_HMAC ignored: the key   *)
(* keeps the zero bytes resize() gave it.                                  *)
(***************************************************************************)
PBKDF2KeyProvider_IgnoresResult(password, salt_bytes, random_salt, rand_ok, kdf_ok) ==
    IF salt_bytes = <<>> /\ ~rand_ok
    THEN NoProvider(password, salt_bytes, rand_ok, kdf_ok, "rand", 0)
    ELSE IF salt_bytes # <<>> /\ Len(salt_bytes) # PBKDF2_SALT_SIZE
    THEN NoProvider(password, salt_bytes, rand_ok, kdf_ok, "salt", 0)
    ELSE LET salt == IF salt_bytes = <<>> THEN random_salt ELSE salt_bytes
         IN  [password |-> password, salt_bytes |-> salt_bytes,
              rand_ok |-> rand_ok, kdf_ok |-> kdf_ok, thrown |-> "none",
              salt_ |-> salt,
              derived_key_ |-> IF kdf_ok
                               THEN PKCS5_PBKDF2_HMAC(password, salt, PBKDF2_ITERATIONS,
                                                      PBKDF2_OUTPUT_SIZE)
                               ELSE Fill(PBKDF2_OUTPUT_SIZE, 0),
              iterations |-> PBKDF2_ITERATIONS]

(***************************************************************************)
(* PBKDF2KeyProvider::PBKDF2KeyProvider(password, salt_bytes).  An empty   *)
(* salt_bytes means no salt was supplied: RAND_bytes fills 16 bytes        *)
(* (random_salt) or fails; a non-empty one must be 16 bytes.  Then the key *)
(* is derived with PBKDF2_ITERATIONS iterations.  The record keeps the     *)
(* arguments, what the constructor threw and the fields of the object.     *)
(***************************************************************************)
PBKDF2KeyProvider(password, salt_bytes, random_salt, rand_ok, kdf_ok) ==
    IF salt_bytes = <<>> /\ ~rand_ok
    THEN NoProvider(password, salt_bytes, rand_ok, kdf_ok, "rand", 0)
    ELSE IF salt_bytes # <<>> /\ Len(salt_bytes) # PBKDF2_SALT_SIZE
    THEN NoProvider(password, salt_bytes, rand_ok, kdf_ok, "salt", 0)
    ELSE LET salt == IF salt_bytes = <<>> THEN random_salt ELSE salt_bytes
         IN  IF ~kdf_ok
             THEN NoProvider(password, salt_bytes, rand_ok, kdf_ok, "kdf",
                             PBKDF2_ITERATIONS)
             ELSE [password |-> password, salt_bytes |-> salt_bytes,
                   rand_ok |-> rand_ok, kdf_ok |-> kdf_ok, thrown |-> "none",
                   salt_ |-> salt,
                   derived_key_ |-> PKCS5_PBKDF2_HMAC(password, salt, PBKDF2_ITERATIONS,
                                                      PBKDF2_OUTPUT_SIZE),
                   iterations |-> PBKDF2_ITERATIONS]

(***************************************************************************)
(* Endpoint comparison, common.h lines 44-58.  An address is a std::string,*)
(* written here as the sequence of its character codes: std::string's      *)
(* operator< compares character by character and a proper prefix is less.  *)
(* The port is a uint16_t.  OrderEndpoints are the endpoints compared:     *)
(* addresses "", "1", "10", "9" and the ports 0, 5000 and 65535.           *)
(***************************************************************************)
StringLess(s, t) ==
    \E k \in 1 .. Len(t) :
        /\ k <= Len(s) + 1
        /\ \A i \in 1 .. (k - 1) : s[i] = t[i]
        /\ (k <= Len(s) => s[k] < t[k])

EndpointEq(a, b) == a.address = b.address /\ a.port = b.port

(***************************************************************************)
(* operator< that lets the port decide without testing the addresses for   *)
(* equality.                                                               *)
(***************************************************************************)
EndpointLess_PortDecides(a, b) ==
    StringLess(a.address, b.address) \/ a.port < b.port

EndpointLess(a, b) ==
    StringLess(a.address, b.address) \/ (a.address = b.address /\ a.port < b.port)

OrderAddresses == {<<>>, <<49>>, <<49, 48>>, <<57>>}

OrderPorts == {0, 5000, 65535}

OrderEndpoints == {Endpoint(addr, p) : addr \in OrderAddresses, p \in OrderPorts}

(***************************************************************************)
(* The completion handler UdpTransport::Send gives async_send_to, lines    *)
(* 359-370.  It captures the size of the data and the destination string;  *)
(* cerr is what it writes to std::cerr and signals what it passes on to    *)
(* the caller of Send, which supplied no completion handler.               *)
(***************************************************************************)
UdpSendHandler(ec, transferred, data_size) ==
    [cerr |-> IF ec # "ok" THEN <<"UDP Send failed">>
              ELSE IF transferred # data_size THEN <<"Warning: partial send">>
              ELSE <<>>,
     signals |-> <<>>]

(***************************************************************************)
(* What the socket takes from the buffer async_send_to was given, which is *)
(* asio::buffer over the caller's vector and no copy.  The buffer has to   *)
(* exist until the completion handler is called; a send not performed      *)
(* before the vector is destroyed reads freed memory: the bytes are still  *)
(* there, or others are, or the process faults.                            *)
(***************************************************************************)
SocketReads(buffer_alive, data) ==
    IF buffer_alive
    THEN {[wire |-> data, fault |-> FALSE]}
    ELSE {[wire |-> data, fault |-> FALSE],
          [wire |-> Fill(Len(data), 0), fault |-> FALSE],
          [wire |-> <<>>, fault |-> TRUE]}

(***************************************************************************)
(* Owners of a UdpTransport: the TransportAES256 built on it               *)
(* (base_transport_), the application when it kept its own shared_ptr, and *)
(* one shared_from_this() copy in the handler of each receive, outstanding *)
(* on the socket or queued on the io_context.  The handler of a send       *)
(* captures no owner.                                                      *)
(***************************************************************************)
OwningReferences_RawThis(secure, app, pending, ready) ==
    (IF secure THEN 1 ELSE 0) + (IF app THEN 1 ELSE 0)

OwningReferences(secure, app, pending, ready) ==
    (IF secure THEN 1 ELSE 0) + (IF app THEN 1 ELSE 0) + pending + Len(ready)

(***************************************************************************)
(* The receive callback TransportAES256 registers captures this.  Run      *)
(* after the TransportAES256 is destroyed it reads freed memory: the       *)
(* process faults, or the memory is still intact and DecryptAndHandle runs *)
(* on the fields the object had.                                           *)
(***************************************************************************)
DanglingThis(key_bytes, callback, encrypted_data, sender, prim_ok) ==
    {[decrypt |-> "skipped", calls |-> <<>>, escaped |-> "fault", cerr |-> <<>>],
     DecryptAndHandle(key_bytes, callback, encrypted_data, sender, prim_ok)}

(***************************************************************************)
(* QuicNgTcp2Transport (the media transport) and ControlUdpTransport.  A   *)
(* transport is its handler_, its socket_ (closed, unbound or bound), the  *)
(* receives outstanding on the socket and the handlers queued on the       *)
(* io_context; starts, runs and sends record what StartReceive, the        *)
(* receive handler and AsyncSendTo did.  TransportCrypto is not part of    *)
(* the sources: whether a datagram authenticates and whether Encrypt       *)
(* succeeds are inputs.                                                    *)
(***************************************************************************)
Quic == "QuicNgTcp2Transport"

Control == "ControlUdpTransport"

MediaKinds == {Quic, Control}

MediaConstructed ==
    [handler_ |-> "none", socket_ |-> "closed", outstanding |-> 0, queued |-> <<>>,
     starts |-> <<>>, runs |-> <<>>, sends |-> <<>>]

(***************************************************************************)
(* socket_.open(protocol, ec) and socket_.bind(ep, ec).                    *)
(***************************************************************************)
SocketOpen(socket, open_ok) ==
    IF socket # "closed" THEN [socket |-> socket, ec |-> "already_open"]
    ELSE IF open_ok THEN [socket |-> "unbound", ec |-> "ok"]
    ELSE [socket |-> "closed", ec |-> "no_descriptors"]

SocketBind(socket, bind_ok) ==
    IF socket = "closed" THEN [socket |-> socket, ec |-> "bad_descriptor"]
    ELSE IF socket = "bound" THEN [socket |-> socket, ec |-> "invalid_argument"]
    ELSE IF bind_ok THEN [socket |-> "bound", ec |-> "ok"]
    ELSE [socket |-> socket, ec |-> "address_in_use"]

(***************************************************************************)
(* AsyncReceive: async_receive_from with a handler holding                 *)
(* shared_from_this().  On a closed socket it completes at once with       *)
(* bad_descriptor.                                                         *)
(***************************************************************************)
AsyncReceive(t) ==
    IF t.socket_ = "closed"
    THEN [t EXCEPT !.queued = Append(@, [ec |-> "error", bytes_recvd |-> 0,
                                         authentic |-> FALSE])]
    ELSE [t EXCEPT !.outstanding = @ + 1]

(***************************************************************************)
(* QuicNgTcp2Transport::StartReceive: OpenSocket writes a bind error to    *)
(* std::cerr and returns; AsyncReceive follows in every case.              *)
(***************************************************************************)
QuicStartReceive(t, handler, open_ok, bind_ok) ==
    LET o == SocketOpen(t.socket_, open_ok)
        b == SocketBind(o.socket, bind_ok)
        u == [t EXCEPT !.handler_ = handler, !.socket_ = b.socket]
    IN  [AsyncReceive(u) EXCEPT !.starts = Append(@,
            [ec |-> b.ec,
             cerr |-> IF b.ec # "ok" THEN <<"Socket bind error">> ELSE <<>>,
             armed |-> TRUE])]

(***************************************************************************)
(* ControlUdpTransport::StartReceive: returns after a bind error.          *)
(***************************************************************************)
ControlStartReceive(t, handler, open_ok, bind_ok) ==
    LET o == SocketOpen(t.socket_, open_ok)
        b == SocketBind(o.socket, bind_ok)
        u == [t EXCEPT !.handler_ = handler, !.socket_ = b.socket]
    IN  IF b.ec # "ok"
        THEN [u EXCEPT !.starts = Append(@,
                [ec |-> b.ec, cerr |-> <<"Bind error">>, armed |-> FALSE])]
        ELSE [AsyncReceive(u) EXCEPT !.starts = Append(@,
                [ec |-> b.ec, cerr |-> <<>>, armed |-> TRUE])]

(***************************************************************************)
(* QuicNgTcp2Transport::HandleReceive and the handler lambda of            *)
(* ControlUdpTransport::AsyncReceive, for the completion h at the head of  *)
(* the queue.  Both arm the next receive only if (!ec).                    *)
(***************************************************************************)
QuicHandleReceive(t, h) ==
    LET ok == h.ec = "ok"
        u == [t EXCEPT !.queued = Tail(@)]
        a == IF ok THEN AsyncReceive(u) ELSE u
    IN  [a EXCEPT !.runs = Append(@,
            [ec |-> h.ec, bytes_recvd |-> h.bytes_recvd,
             delivered |-> ok /\ h.bytes_recvd > 0 /\ h.authentic /\ t.handler_ # "none",
             cerr |-> IF ok /\ h.bytes_recvd > 0 /\ ~h.authentic
                      THEN <<"Decrypt/Auth failed">> ELSE <<>>,
             rearmed |-> ok])]

ControlHandleReceive(t, h) ==
    LET ok == h.ec = "ok"
        u == [t EXCEPT !.queued = Tail(@)]
        a == IF ok THEN AsyncReceive(u) ELSE u
    IN  [a EXCEPT !.runs = Append(@,
            [ec |-> h.ec, bytes_recvd |-> h.bytes_recvd,
             delivered |-> ok /\ h.bytes_recvd > 0 /\ t.handler_ # "none",
             cerr |-> <<>>,
             rearmed |-> ok])]

(***************************************************************************)
(* Stop of either transport: socket_.close(ec); the receives outstanding   *)
(* complete with operation_aborted.                                        *)
(***************************************************************************)
MediaStop(t) ==
    [t EXCEPT !.socket_ = "closed", !.outstanding = 0,
              !.queued = @ \o [i \in 1 .. t.outstanding |->
                                 [ec |-> "aborted", bytes_recvd |-> 0,
                                  authentic |-> FALSE]]]

(***************************************************************************)
(* QuicNgTcp2Transport::AsyncSendTo: on_sent(operation_aborted, 0) when    *)
(* Encrypt fails, async_send_to otherwise.  Sending on an open socket that *)
(* has no local address binds it to a port the system picks.               *)
(***************************************************************************)
QuicAsyncSendTo(t, encrypt_ok) ==
    IF ~encrypt_ok
    THEN [t EXCEPT !.sends = Append(@, [on_sent |-> "operation_aborted"])]
    ELSE IF t.socket_ = "closed"
    THEN [t EXCEPT !.sends = Append(@, [on_sent |-> "bad_descriptor"])]
    ELSE [t EXCEPT !.socket_ = "bound", !.sends = Append(@, [on_sent |-> "ok"])]

(***************************************************************************)
(* HCSNode.  The node's component pointers are null (FALSE) after the      *)
(* constructor.  Start throws on a null key provider; otherwise            *)
(* InitTransport creates the media transport and starts it, and Start      *)
(* creates the topology manager, the encoder and the decoder.              *)
(***************************************************************************)
NodeComponents(node) ==
    [media_transport_ |-> node.media_transport_,
     topology_manager_ |-> node.topology_manager_,
     stream_encoder_ |-> node.stream_encoder_,
     stream_decoder_ |-> node.stream_decoder_]

KeyProviders == {"null", "key_provider"}

InitTransport(node, quic, open_ok, bind_ok) ==
    [node |-> [node EXCEPT !.media_transport_ = TRUE],
     quic |-> QuicStartReceive(MediaConstructed, "stream_decoder_", open_ok, bind_ok)]

(***************************************************************************)
(* Start that tests the key provider after InitTransport.                  *)
(***************************************************************************)
HCSNodeStartCall_TestsAfterInit(node, quic, key_provider, open_ok, bind_ok) ==
    LET i == InitTransport(node, quic, open_ok, bind_ok)
    IN  IF key_provider = "null"
        THEN [node |-> i.node, quic |-> i.quic, thrown |-> "runtime_error"]
        ELSE [node |-> [i.node EXCEPT !.topology_manager_ = TRUE,
                                      !.stream_encoder_ = TRUE,
                                      !.stream_decoder_ = TRUE],
              quic |-> i.quic, thrown |-> "none"]

HCSNodeStartCall(node, quic, key_provider, open_ok, bind_ok) ==
    IF key_provider = "null"
    THEN [node |-> node, quic |-> quic, thrown |-> "runtime_error"]
    ELSE LET i == InitTransport(node, quic, open_ok, bind_ok)
         IN  [node |-> [i.node EXCEPT !.topology_manager_ = TRUE,
                                      !.stream_encoder_ = TRUE,
                                      !.stream_decoder_ = TRUE],
              quic |-> i.quic, thrown |-> "none"]

(***************************************************************************)
(* TopologyManager (hcs_control).  Time is the steady clock in ticks of    *)
(* half a second.  A score is kept in tenths, which the metrics used here  *)
(* make exact: ComputeNodeScore is 1000 - 10 hop_count + 5 bandwidth_score *)
(* + 2 stability_score - 0.1 rtt_ms.  BestScore starts at -1.0.            *)
(***************************************************************************)
TicksPerSecond == 2

failover_timeout_sec_ == 5

NodeMetrics(hop, bandwidth, stability, rtt) ==
    [hop_count |-> hop, bandwidth_score |-> bandwidth,
     stability_score |-> stability, rtt_ms |-> rtt]

MetricsAdvertised ==
    {NodeMetrics(0, 0, 0, 9999), NodeMetrics(1, 10, 5, 20), NodeMetrics(3, 0, 0, 20000)}

Ips == {"10.0.0.1", "10.0.0.2"}

Groups == {"g1", "g2"}

GroupSets == {{"g1"}, {"g2"}, {"g1", "g2"}}

AdvertiseMessages ==
    {[ip |-> ip, metrics |-> m, groups |-> gs] :
        ip \in Ips, m \in MetricsAdvertised, gs \in GroupSets}

ComputeNodeScore(metrics) ==
    10000 - metrics.hop_count * 100 + metrics.bandwidth_score * 50
          + metrics.stability_score * 20 - metrics.rtt_ms

BestScoreDefault == [score |-> -10, parent_ip |-> ""]

TopologyConstructed ==
    [neighbor_nodes_ |-> <<>>, best_scores_ |-> <<>>, now |-> 0, calls |-> 0,
     check |-> [group_id |-> "", parent_ip |-> "", silent |-> 0, found |-> FALSE,
                before |-> <<>>, after |-> <<>>, peers_before |-> <<>>,
                peers_after |-> <<>>, advertised |-> {}]]

HandleAdvertise(tm, msg) ==
    LET score == ComputeNodeScore(msg.metrics)
        known == msg.ip \in DOMAIN tm.neighbor_nodes_
        peer == [metrics |-> msg.metrics, ip_address |-> msg.ip,
                 last_advertise_time |-> tm.now,
                 is_parent |-> IF known THEN tm.neighbor_nodes_[msg.ip].is_parent
                               ELSE FALSE,
                 groups |-> msg.groups]
        Current(gid) == IF gid \in DOMAIN tm.best_scores_ THEN tm.best_scores_[gid]
                        ELSE BestScoreDefault
    IN  [tm EXCEPT
            !.neighbor_nodes_ =
                [ip \in DOMAIN tm.neighbor_nodes_ \cup {msg.ip} |->
                    IF ip = msg.ip THEN peer ELSE tm.neighbor_nodes_[ip]],
            !.best_scores_ =
                [gid \in DOMAIN tm.best_scores_ \cup msg.groups |->
                    IF gid \in msg.groups /\ score > Current(gid).score
                    THEN [score |-> score, parent_ip |-> msg.ip]
                    ELSE Current(gid)]]

HandleHeartbeat(tm, ip, group_id) ==
    IF ip \in DOMAIN tm.neighbor_nodes_
    THEN [tm EXCEPT !.neighbor_nodes_[ip].last_advertise_time = tm.now]
    ELSE tm

SelectBestParent(tm, group_id) ==
    IF group_id \in DOMAIN tm.best_scores_ THEN tm.best_scores_[group_id].parent_ip
    ELSE ""

(***************************************************************************)
(* duration_cast<seconds>(now - last_advertise_time).count(): whole        *)
(* seconds, the fraction dropped.                                          *)
(***************************************************************************)
ElapsedSeconds_RoundsUp(now, last_advertise_time) ==
    (now - last_advertise_time + TicksPerSecond - 1) \div TicksPerSecond

ElapsedSeconds(now, last_advertise_time) ==
    (now - last_advertise_time) \div TicksPerSecond

CheckParentHealth(tm, group_id) ==
    LET parent_ip == SelectBestParent(tm, group_id)
    IN  IF parent_ip = "" THEN tm
        ELSE IF parent_ip \notin DOMAIN tm.neighbor_nodes_ THEN tm
        ELSE IF ElapsedSeconds(tm.now, tm.neighbor_nodes_[parent_ip].last_advertise_time)
                    > failover_timeout_sec_
        THEN [tm EXCEPT
                !.neighbor_nodes_[parent_ip].is_parent = FALSE,
                !.best_scores_ = [gid \in DOMAIN tm.best_scores_ \ {group_id} |->
                                     tm.best_scores_[gid]]]
        ELSE tm

(***************************************************************************)
(* StreamEncoder (hcs_media): the encoding timer.  waits counts the        *)
(* async_wait outstanding on encoding_timer_, queued holds the error codes *)
(* of the handlers the io_context has still to run, stopped says that      *)
(* Stop() was the last call made by the application, and runs records the   *)
(* runs of HandleEncodingTimer.  Setting the expiry of the timer or         *)
(* cancelling it completes every outstanding wait with operation_aborted;  *)
(* a wait that has expired already keeps its success code.                 *)
(***************************************************************************)
EncoderConstructed ==
    [waits |-> 0, queued |-> <<>>, stopped |-> FALSE, publishes |-> 0, runs |-> <<>>]

TimerCancel(e) ==
    [e EXCEPT !.waits = 0,
              !.queued = @ \o [i \in 1 .. e.waits |-> "aborted"]]

AsyncWait(e) == [e EXCEPT !.waits = @ + 1]

StartPublishing(e) ==
    [AsyncWait(TimerCancel(e)) EXCEPT !.stopped = FALSE, !.publishes = @ + 1]

StreamEncoderStop(e) == [TimerCancel(e) EXCEPT !.stopped = TRUE]

HandleEncodingTimer(e, ec) ==
    IF ec = "aborted"
    THEN [e EXCEPT !.runs = Append(@, [ec |-> ec, frames |-> 0, cerr |-> <<>>,
                                       rearmed |-> FALSE, stopped |-> e.stopped])]
    ELSE IF ec # "ok"
    THEN [e EXCEPT !.runs = Append(@, [ec |-> ec, frames |-> 0,
                                       cerr |-> <<"Timer error">>,
                                       rearmed |-> FALSE, stopped |-> e.stopped])]
    ELSE [AsyncWait(TimerCancel(e)) EXCEPT
              !.runs = Append(@, [ec |-> ec, frames |-> 1, cerr |-> <<>>,
                                  rearmed |-> TRUE, stopped |-> e.stopped])]

(***************************************************************************)
(* State.  Per node: the KeyProvider's key, the TransportAES256 fields     *)
(* (current_iv_counter_, user_callback_), the UdpTransport fields          *)
(* (receive_callback_, socket open, receive_buffer_, remote_endpoint_),    *)
(* the receives outstanding on the socket and the completion handlers      *)
(* queued on the io_context.  send_log and rx_log record the calls of      *)
(* Send and the runs of HandleReceive.  provider is the PBKDF2KeyProvider  *)
(* the application constructed (when it uses one) and reads records the    *)
(* calls of GetEncryptionKey and GetSalt on it.  send_completions records   *)
(* the runs of the completion handlers of UdpTransport::Send and           *)
(* unrecorded_runs the runs of HandleReceive that rx_log did not take.      *)
(* secure_alive and base_alive say whether the TransportAES256 and the     *)
(* UdpTransport of a node still exist, app_holds_base whether the          *)
(* application kept a shared_ptr to the UdpTransport.  transports are the  *)
(* media and control transports, hcs_node the HCSNode.  operands are three *)
(* endpoints and relation the outcome of comparing them.  topology is the  *)
(* TopologyManager and encoder the StreamEncoder.                          *)
(***************************************************************************)
VARIABLES key_provider_, current_iv_counter_, user_callback_, receive_callback_,
          socket_open, pending_receives, ready_handlers, receive_buffer_,
          remote_endpoint_, send_log, rx_log, provider, reads,
          send_completions, unrecorded_runs, secure_alive, base_alive,
          app_holds_base, transports, hcs_node, operands, relation, topology,
          encoder

lifeVars == <<secure_alive, base_alive, app_holds_base>>

nodeVars == <<transports, hcs_node>>

orderVars == <<operands, relation>>

pipelineVars == <<topology, encoder>>

channelVars == <<key_provider_, current_iv_counter_, user_callback_, receive_callback_,
                 socket_open, pending_receives, ready_handlers, receive_buffer_,
                 remote_endpoint_, send_log, rx_log, provider, reads,
                 unrecorded_runs>>

vars == <<key_provider_, current_iv_counter_, user_callback_, receive_callback_,
          socket_open, pending_receives, ready_handlers, receive_buffer_,
          remote_endpoint_, send_log, rx_log, provider, reads,
          send_completions, unrecorded_runs, secure_alive, base_alive,
          app_holds_base, transports, hcs_node, operands, relation, topology,
          encoder>>

(***************************************************************************)
(* Construction: UdpTransport binds its socket and sizes the buffer;       *)
(* TransportAES256 seeds the counter from std::random_device (32 bits),    *)
(* leaves user_callback_ empty and registers DecryptAndHandle below.       *)
(***************************************************************************)
Constructed ==
    /\ user_callback_ = [n \in Nodes |-> "none"]
    /\ receive_callback_ = [n \in Nodes |-> "DecryptAndHandle"]
    /\ socket_open = [n \in Nodes |-> TRUE]
    /\ pending_receives = [n \in Nodes |-> 0]
    /\ ready_handlers = [n \in Nodes |-> <<>>]
    /\ receive_buffer_ = [n \in Nodes |-> <<>>]
    /\ remote_endpoint_ = [n \in Nodes |-> Endpoint("0.0.0.0", 0)]
    /\ send_log = [n \in Nodes |-> <<>>]
    /\ rx_log = [n \in Nodes |-> <<>>]
    /\ send_completions = [n \in Nodes |-> <<>>]
    /\ unrecorded_runs = [n \in Nodes |-> 0]
    /\ secure_alive = [n \in Nodes |-> TRUE]
    /\ base_alive = [n \in Nodes |-> TRUE]

(***************************************************************************)
(* The application keeps its shared_ptr to each UdpTransport.              *)
(***************************************************************************)
AppKeepsBase == app_holds_base = [n \in Nodes |-> TRUE]

(***************************************************************************)
(* HCSNode::HCSNode leaves the component pointers null; the control        *)
(* transport is constructed with its socket closed.                        *)
(***************************************************************************)
HCSNodeConstructed ==
    /\ transports = [k \in MediaKinds |-> MediaConstructed]
    /\ hcs_node = [media_transport_ |-> FALSE, topology_manager_ |-> FALSE,
                   stream_encoder_ |-> FALSE, stream_decoder_ |-> FALSE,
                   calls |-> <<>>]

NothingCompared ==
    /\ operands = <<>>
    /\ relation = [less |-> <<>>, equal |-> <<>>]

PipelineConstructed ==
    /\ topology = TopologyConstructed
    /\ encoder = EncoderConstructed

Aside == AppKeepsBase /\ HCSNodeConstructed /\ NothingCompared /\ PipelineConstructed

(***************************************************************************)
(* The application hands the transports a KeyProvider with caller-supplied *)
(* key bytes: no PBKDF2KeyProvider is constructed.                         *)
(***************************************************************************)
RawKeyProvider ==
    /\ provider = NoProvider(<<>>, <<>>, TRUE, TRUE, "unused", 0)
    /\ reads = <<>>

Init ==
    /\ RawKeyProvider
    /\ key_provider_ \in [Nodes -> ProviderKeys]
    /\ key_provider_["a"] = KeyAA
    /\ current_iv_counter_ = [n \in Nodes |-> U64FromU32(255, 0, 0, 0)]
    /\ Constructed
    /\ Aside

TamperInit ==
    /\ RawKeyProvider
    /\ \E k \in {KeyAA, KeyBB} : key_provider_ = [n \in Nodes |-> k]
    /\ current_iv_counter_ = [n \in Nodes |-> U64FromU32(255, 0, 0, 0)]
    /\ Constructed
    /\ Aside

SendInit ==
    /\ RawKeyProvider
    /\ key_provider_ \in [Nodes -> ProviderKeys]
    /\ \E seed \in Seeds : current_iv_counter_ = [n \in Nodes |-> seed]
    /\ Constructed
    /\ Aside

(***************************************************************************)
(* The application constructs a PBKDF2KeyProvider and, when construction   *)
(* succeeds, the transports of both nodes on the key it derived.           *)
(***************************************************************************)
KeyInit ==
    /\ \E password \in Passwords, salt_bytes \in SuppliedSalts,
          random_salt \in RandomSalts, rand_ok \in BOOLEAN, kdf_ok \in BOOLEAN :
          provider = PBKDF2KeyProvider(password, salt_bytes, random_salt, rand_ok, kdf_ok)
    /\ reads = <<>>
    /\ key_provider_ = [n \in Nodes |-> provider.derived_key_]
    /\ current_iv_counter_ = [n \in Nodes |-> U64FromU32(255, 0, 0, 0)]
    /\ Constructed
    /\ Aside

(***************************************************************************)
(* LifeInit: as Init with one key, the application keeping or not keeping  *)
(* its own shared_ptr to each UdpTransport.  NodeInit: the HCSNode         *)
(* constructed.  OrderInit: any three endpoints.                           *)
(***************************************************************************)
LifeInit ==
    /\ RawKeyProvider
    /\ key_provider_ = [n \in Nodes |-> KeyAA]
    /\ current_iv_counter_ = [n \in Nodes |-> U64FromU32(255, 0, 0, 0)]
    /\ Constructed
    /\ app_holds_base \in [Nodes -> BOOLEAN]
    /\ HCSNodeConstructed
    /\ NothingCompared
    /\ PipelineConstructed

NodeInit ==
    /\ RawKeyProvider
    /\ key_provider_ = [n \in Nodes |-> KeyAA]
    /\ current_iv_counter_ = [n \in Nodes |-> U64FromU32(255, 0, 0, 0)]
    /\ Constructed
    /\ Aside

OrderInit ==
    /\ RawKeyProvider
    /\ key_provider_ = [n \in Nodes |-> KeyAA]
    /\ current_iv_counter_ = [n \in Nodes |-> U64FromU32(255, 0, 0, 0)]
    /\ Constructed
    /\ AppKeepsBase
    /\ HCSNodeConstructed
    /\ operands \in [1 .. 3 -> OrderEndpoints]
    /\ relation = [less |-> <<>>, equal |-> <<>>]
    /\ PipelineConstructed

(***************************************************************************)
(* PBKDF2KeyProvider::GetSalt that draws a new salt on every call.         *)
(***************************************************************************)
GetSalt_Regenerates ==
    /\ provider.thrown = "none"
    /\ Len(reads) < MaxReads
    /\ \E fresh \in RandomSalts \cup {Fill(PBKDF2_SALT_SIZE, 51)} :
          /\ provider' = [provider EXCEPT !.salt_ = fresh]
          /\ reads' = Append(reads, [op |-> "GetSalt", value |-> fresh])
    /\ UNCHANGED <<key_provider_, current_iv_counter_, user_callback_, receive_callback_,
                   socket_open, pending_receives, ready_handlers, receive_buffer_,
                   remote_endpoint_, send_log, rx_log,
                   send_completions, unrecorded_runs, lifeVars, nodeVars, orderVars, pipelineVars>>

(***************************************************************************)
(* PBKDF2KeyProvider::GetEncryptionKey and GetSalt: const reads of         *)
(* derived_key_ and salt_ of a constructed provider.                       *)
(***************************************************************************)
GetEncryptionKey ==
    /\ provider.thrown = "none"
    /\ Len(reads) < MaxReads
    /\ reads' = Append(reads, [op |-> "GetEncryptionKey", value |-> provider.derived_key_])
    /\ UNCHANGED <<key_provider_, current_iv_counter_, user_callback_, receive_callback_,
                   socket_open, pending_receives, ready_handlers, receive_buffer_,
                   remote_endpoint_, send_log, rx_log, provider,
                   send_completions, unrecorded_runs, lifeVars, nodeVars, orderVars, pipelineVars>>

GetSalt ==
    /\ provider.thrown = "none"
    /\ Len(reads) < MaxReads
    /\ reads' = Append(reads, [op |-> "GetSalt", value |-> provider.salt_])
    /\ UNCHANGED <<key_provider_, current_iv_counter_, user_callback_, receive_callback_,
                   socket_open, pending_receives, ready_handlers, receive_buffer_,
                   remote_endpoint_, send_log, rx_log, provider,
                   send_completions, unrecorded_runs, lifeVars, nodeVars, orderVars, pipelineVars>>

(***************************************************************************)
(* UdpTransport::StartReceive: async_receive_from on the socket.  On a     *)
(* closed socket the operation completes at once with a bad-descriptor     *)
(* error, so its handler is queued.                                        *)
(***************************************************************************)
StartReceive(open, pending, ready) ==
    IF open
    THEN [pending |-> pending + 1, ready |-> ready]
    ELSE [pending |-> pending, ready |-> Append(ready, [ec |-> "error", bytes |-> 0])]

(***************************************************************************)
(* TransportAES256::Start -> UdpTransport::Start -> StartReceive.          *)
(***************************************************************************)
Start(n) ==
    /\ pending_receives[n] + Len(ready_handlers[n]) < MaxPending
    /\ LET r == StartReceive(socket_open[n], pending_receives[n], ready_handlers[n])
       IN  /\ pending_receives' = [pending_receives EXCEPT ![n] = r.pending]
           /\ ready_handlers' = [ready_handlers EXCEPT ![n] = r.ready]
    /\ UNCHANGED <<key_provider_, current_iv_counter_, user_callback_, receive_callback_,
                   socket_open, receive_buffer_, remote_endpoint_, send_log, rx_log,
                   provider, reads,
                   send_completions, unrecorded_runs, lifeVars, nodeVars, orderVars, pipelineVars>>

(***************************************************************************)
(* Start called on a transport that has receives in flight already: the    *)
(* same call, from the states the guard of Start leaves out.  Start tests  *)
(* nothing before StartReceive.                                            *)
(***************************************************************************)
StartAgain(n) ==
    /\ pending_receives[n] + Len(ready_handlers[n]) >= MaxPending
    /\ pending_receives[n] < MaxArmed
    /\ LET r == StartReceive(socket_open[n], pending_receives[n], ready_handlers[n])
       IN  /\ pending_receives' = [pending_receives EXCEPT ![n] = r.pending]
           /\ ready_handlers' = [ready_handlers EXCEPT ![n] = r.ready]
    /\ UNCHANGED <<key_provider_, current_iv_counter_, user_callback_, receive_callback_,
                   socket_open, receive_buffer_, remote_endpoint_, send_log, rx_log,
                   provider, reads,
                   send_completions, unrecorded_runs, lifeVars, nodeVars, orderVars,
                   pipelineVars>>

(***************************************************************************)
(* TransportAES256::Stop -> UdpTransport::Stop: closes an open socket;     *)
(* every receive outstanding on it completes with operation_aborted.       *)
(***************************************************************************)
Aborted(count) == [i \in 1 .. count |-> [ec |-> "aborted", bytes |-> 0]]

(***************************************************************************)
(* Stop that cancels and closes without testing is_open: on a socket       *)
(* already closed the cancel raises bad_descriptor.                        *)
(***************************************************************************)
UdpStop_NoOpenTest(open, pending, ready) ==
    [open |-> FALSE, pending |-> 0, ready |-> ready \o Aborted(pending),
     thrown |-> IF open THEN "none" ELSE "bad_descriptor"]

(***************************************************************************)
(* UdpTransport::Stop, lines 333-342: close(ec) only when is_open(); the   *)
(* error_code overload does not throw.                                     *)
(***************************************************************************)
UdpStop(open, pending, ready) ==
    IF open
    THEN [open |-> FALSE, pending |-> 0, ready |-> ready \o Aborted(pending),
          thrown |-> "none"]
    ELSE [open |-> open, pending |-> pending, ready |-> ready, thrown |-> "none"]

Stop(n) ==
    /\ \E r \in {UdpStop(socket_open[n], pending_receives[n], ready_handlers[n])} :
          /\ socket_open' = [socket_open EXCEPT ![n] = r.open]
          /\ ready_handlers' = [ready_handlers EXCEPT ![n] = r.ready]
          /\ pending_receives' = [pending_receives EXCEPT ![n] = r.pending]
    /\ UNCHANGED <<key_provider_, current_iv_counter_, user_callback_, receive_callback_,
                   receive_buffer_, remote_endpoint_, send_log, rx_log,
                   provider, reads,
                   send_completions, unrecorded_runs, lifeVars, nodeVars, orderVars, pipelineVars>>

(***************************************************************************)
(* SetReceiveCallback that keeps a callback already registered.            *)
(***************************************************************************)
SetReceiveCallback_KeepsFirst(n, callback) ==
    /\ user_callback_' = [user_callback_ EXCEPT
                            ![n] = IF @ = "none" THEN callback ELSE @]
    /\ UNCHANGED <<key_provider_, current_iv_counter_, receive_callback_, socket_open,
                   pending_receives, ready_handlers, receive_buffer_, remote_endpoint_,
                   send_log, rx_log,
                   provider, reads,
                   send_completions, unrecorded_runs, lifeVars, nodeVars, orderVars, pipelineVars>>

(***************************************************************************)
(* TransportAES256::SetReceiveCallback.                                    *)
(***************************************************************************)
SetReceiveCallback(n, callback) ==
    /\ user_callback_' = [user_callback_ EXCEPT ![n] = callback]
    /\ UNCHANGED <<key_provider_, current_iv_counter_, receive_callback_, socket_open,
                   pending_receives, ready_handlers, receive_buffer_, remote_endpoint_,
                   send_log, rx_log,
                   provider, reads,
                   send_completions, unrecorded_runs, lifeVars, nodeVars, orderVars, pipelineVars>>

(***************************************************************************)
(* UdpTransport::Send: async_send_to of the buffer to the destination.     *)
(* The datagram leaves only through an open socket.                        *)
(***************************************************************************)
UdpSend(open, data, destination) ==
    [handed |-> <<[data |-> data, destination |-> destination]>>, transmitted |-> open]

(***************************************************************************)
(* Send that passes whatever Encrypt left in the packet to the base        *)
(* transport after logging the exception.                                  *)
(***************************************************************************)
SendCall_SendsOnFailure(key_bytes, counter, open, data, destination, prim_ok) ==
    LET e == Encrypt(key_bytes, counter, data, prim_ok)
        u == UdpSend(open, e.packet, destination)
    IN  [counter |-> e.counter, thrown |-> e.thrown, iv_value |-> e.iv_value,
         handed |-> u.handed, transmitted |-> u.transmitted,
         reported |-> IF e.thrown # "none" THEN <<"TransportAES256::Send error">>
                      ELSE <<>>]

(***************************************************************************)
(* TransportAES256::Send: Encrypt, then the base transport's Send of the   *)
(* packet.  A std::exception from Encrypt is caught and written to         *)
(* std::cerr (reported), and the base transport is not called.  Send       *)
(* returns void and calls Encrypt once.                                    *)
(***************************************************************************)
SendCall(key_bytes, counter, open, data, destination, prim_ok) ==
    LET e == Encrypt(key_bytes, counter, data, prim_ok)
        u == UdpSend(open, e.packet, destination)
    IN  IF e.thrown # "none"
        THEN [counter |-> e.counter, thrown |-> e.thrown, iv_value |-> e.iv_value,
              handed |-> <<>>, transmitted |-> FALSE,
              reported |-> <<"TransportAES256::Send error">>]
        ELSE [counter |-> e.counter, thrown |-> "none", iv_value |-> e.iv_value,
              handed |-> u.handed, transmitted |-> u.transmitted,
              reported |-> <<>>]

(***************************************************************************)
(* A call of TransportAES256::Send.  The send_log entry keeps the          *)
(* arguments, what Encrypt threw, the counter value it used, what was      *)
(* handed to the base transport, whether the socket transmitted it and     *)
(* what the call wrote to std::cerr.                                       *)
(***************************************************************************)
Send(n, data, destination, prim_ok) ==
    /\ Len(send_log[n]) < MaxSends
    /\ \E r \in {SendCall(key_provider_[n], current_iv_counter_[n], socket_open[n],
                            data, destination, prim_ok)} :
           /\ current_iv_counter_' = [current_iv_counter_ EXCEPT ![n] = r.counter]
           /\ send_log' = [send_log EXCEPT ![n] = Append(@,
                  [data |-> data, destination |-> destination, thrown |-> r.thrown,
                   iv_value |-> r.iv_value, handed |-> r.handed,
                   transmitted |-> r.transmitted, reported |-> r.reported])]
    /\ UNCHANGED <<key_provider_, user_callback_, receive_callback_, socket_open,
                   pending_receives, ready_handlers, receive_buffer_, remote_endpoint_,
                   rx_log,
                   provider, reads,
                   send_completions, unrecorded_runs, lifeVars, nodeVars, orderVars, pipelineVars>>

(***************************************************************************)
(* The network: datagrams that can arrive at node n.  A transmitted packet *)
(* addressed to n may arrive any number of times, unchanged or with one    *)
(* bit flipped; anyone may inject a buffer of his own.  Tampered flips a   *)
(* bit of the nonce; BodyTampered is every one-bit flip of the ciphertext  *)
(* and tag region.  MaxTampered bounds the receptions of TamperSpec.       *)
(***************************************************************************)
TransmittedBy(m, n) ==
    {[data |-> send_log[m][i].handed[1].data, from |-> EndpointOf(m)] :
        i \in {j \in 1 .. Len(send_log[m]) :
                /\ send_log[m][j].transmitted
                /\ send_log[m][j].destination = EndpointOf(n)}}

Transmitted(n) == UNION {TransmittedBy(m, n) : m \in Nodes}

FlipBits == {0}

FlipPositions == {1}

Flips(d) ==
    {[data |-> FlipBit(d.data, pos, bit), from |-> d.from] :
        pos \in FlipPositions, bit \in FlipBits}

Tampered(n) == UNION {Flips(d) : d \in Transmitted(n)}

BodyFlips(d) ==
    {[data |-> FlipBit(d.data, pos, bit), from |-> d.from] :
        pos \in (GCM_IV_SIZE + 1) .. Len(d.data), bit \in 0 .. 7}

BodyTampered(n) == UNION {BodyFlips(d) : d \in Transmitted(n)}

Injected ==
    {[data |-> Fill(len, 0), from |-> SpoofedEndpoint] :
        len \in {0, ENCRYPTED_OVERHEAD - 1, ENCRYPTED_OVERHEAD}}

Arrivals(n) == Transmitted(n) \cup Tampered(n) \cup Injected

(***************************************************************************)
(* Completion of an outstanding async_receive_from with a datagram: the    *)
(* socket writes the bytes over the start of receive_buffer_, the sender   *)
(* into remote_endpoint_, and the handler is queued with the byte count.   *)
(***************************************************************************)
Overwrite(buffer, data) ==
    data \o SubSeq(buffer, Len(data) + 1, Len(buffer))

ReceiveCompletes(n, dgram) ==
    /\ socket_open[n]
    /\ pending_receives[n] > 0
    /\ Len(rx_log[n]) + Len(ready_handlers[n]) < MaxRecv
    /\ pending_receives' = [pending_receives EXCEPT ![n] = @ - 1]
    /\ receive_buffer_' = [receive_buffer_ EXCEPT ![n] = Overwrite(@, dgram.data)]
    /\ remote_endpoint_' = [remote_endpoint_ EXCEPT ![n] = dgram.from]
    /\ ready_handlers' = [ready_handlers EXCEPT
                            ![n] = Append(@, [ec |-> "ok", bytes |-> Len(dgram.data)])]
    /\ UNCHANGED <<key_provider_, current_iv_counter_, user_callback_, receive_callback_,
                   socket_open, send_log, rx_log,
                   provider, reads,
                   send_completions, unrecorded_runs, lifeVars, nodeVars, orderVars, pipelineVars>>

(***************************************************************************)
(* Completion of an outstanding receive with an I/O error other than       *)
(* operation_aborted.                                                      *)
(***************************************************************************)
ReceiveFails(n) ==
    /\ socket_open[n]
    /\ pending_receives[n] > 0
    /\ Len(rx_log[n]) + Len(ready_handlers[n]) < MaxRecv
    /\ pending_receives' = [pending_receives EXCEPT ![n] = @ - 1]
    /\ ready_handlers' = [ready_handlers EXCEPT
                            ![n] = Append(@, [ec |-> "error", bytes |-> 0])]
    /\ UNCHANGED <<key_provider_, current_iv_counter_, user_callback_, receive_callback_,
                   socket_open, receive_buffer_, remote_endpoint_, send_log, rx_log,
                   provider, reads,
                   send_completions, unrecorded_runs, lifeVars, nodeVars, orderVars, pipelineVars>>

(***************************************************************************)
(* HandleReceive that drops a datagram it has already handled.             *)
(***************************************************************************)
HandleReceive_DropsReplay(n, prim_ok) ==
    /\ ready_handlers[n] # <<>>
    /\ Len(rx_log[n]) < MaxRecv
    /\ LET h == Head(ready_handlers[n])
           rest == Tail(ready_handlers[n])
           received_data == SubSeq(receive_buffer_[n], 1, h.bytes)
           sender_endpoint == remote_endpoint_[n]
       IN  \E r \in {IF h.ec = "ok" /\ receive_callback_[n] = "DecryptAndHandle"
                        /\ \A k \in 1 .. Len(rx_log[n]) : rx_log[n][k].data # received_data
                     THEN DecryptAndHandle(key_provider_[n], user_callback_[n],
                                           received_data, sender_endpoint, prim_ok)
                     ELSE [decrypt |-> "skipped", calls |-> <<>>, escaped |-> "none",
                           cerr |-> <<>>]} :
           LET rearm == \/ h.ec = "ok" /\ r.escaped = "none"
                        \/ h.ec = "error"
               s == IF rearm
                    THEN StartReceive(socket_open[n], pending_receives[n], rest)
                    ELSE [pending |-> pending_receives[n], ready |-> rest]
           IN
           /\ pending_receives' = [pending_receives EXCEPT ![n] = s.pending]
           /\ ready_handlers' = [ready_handlers EXCEPT ![n] = s.ready]
           /\ base_alive' = [base_alive EXCEPT ![n] =
                  @ /\ OwningReferences(secure_alive[n], app_holds_base[n],
                                        s.pending, s.ready) > 0]
           /\ rx_log' = [rx_log EXCEPT ![n] = Append(@,
                  [ec |-> h.ec,
                   data |-> IF h.ec = "ok" THEN received_data ELSE <<>>,
                   sender |-> sender_endpoint, callback |-> user_callback_[n],
                   decrypt |-> r.decrypt, calls |-> r.calls, escaped |-> r.escaped,
                   reported |-> r.cerr,
                   rearmed |-> rearm, open |-> socket_open[n],
                   logged |-> h.ec = "error", dangling |-> FALSE])]
    /\ UNCHANGED <<key_provider_, current_iv_counter_, user_callback_, receive_callback_,
                   socket_open, receive_buffer_, remote_endpoint_, send_log,
                   provider, reads,
                   send_completions, unrecorded_runs, secure_alive, app_holds_base,
                   nodeVars, orderVars, pipelineVars>>

(***************************************************************************)
(* UdpTransport::HandleReceive, run by the io_context for the handler at   *)
(* the head of the queue.  On success it copies bytes_received bytes out   *)
(* of receive_buffer_, calls receive_callback_ (the lambda that calls      *)
(* DecryptAndHandle on the captured this) and re-arms; an exception        *)
(* leaving the callback leaves HandleReceive before StartReceive.  An      *)
(* error other than operation_aborted is written to std::cerr (logged) and *)
(* re-arms.  When the handler is destroyed after the run its               *)
(* shared_from_this() copy is released, and the UdpTransport with it when  *)
(* that was the last owner.  The rx_log entry keeps what the run did and   *)
(* whether the socket was open; recorded says whether the run is entered   *)
(* in rx_log.                                                              *)
(***************************************************************************)
HandleReceiveRun(n, prim_ok, recorded) ==
    /\ ready_handlers[n] # <<>>
    /\ LET h == Head(ready_handlers[n])
           rest == Tail(ready_handlers[n])
           received_data == SubSeq(receive_buffer_[n], 1, h.bytes)
           sender_endpoint == remote_endpoint_[n]
           called == h.ec = "ok" /\ receive_callback_[n] = "DecryptAndHandle"
           dangling == called /\ ~secure_alive[n]
       IN  \E r \in IF dangling
                    THEN DanglingThis(key_provider_[n], user_callback_[n],
                                      received_data, sender_endpoint, prim_ok)
                    ELSE {IF called
                          THEN DecryptAndHandle(key_provider_[n], user_callback_[n],
                                                received_data, sender_endpoint, prim_ok)
                          ELSE [decrypt |-> "skipped", calls |-> <<>>,
                                escaped |-> "none", cerr |-> <<>>]} :
           LET rearm == \/ h.ec = "ok" /\ r.escaped = "none"
                        \/ h.ec = "error"
               s == IF rearm
                    THEN StartReceive(socket_open[n], pending_receives[n], rest)
                    ELSE [pending |-> pending_receives[n], ready |-> rest]
           IN
           /\ pending_receives' = [pending_receives EXCEPT ![n] = s.pending]
           /\ ready_handlers' = [ready_handlers EXCEPT ![n] = s.ready]
           /\ base_alive' = [base_alive EXCEPT ![n] =
                  @ /\ OwningReferences(secure_alive[n], app_holds_base[n],
                                        s.pending, s.ready) > 0]
           /\ rx_log' = [rx_log EXCEPT ![n] =
                  IF recorded
                  THEN Append(@,
                         [ec |-> h.ec,
                          data |-> IF h.ec = "ok" THEN received_data ELSE <<>>,
                          sender |-> sender_endpoint, callback |-> user_callback_[n],
                          decrypt |-> r.decrypt, calls |-> r.calls,
                          escaped |-> r.escaped, reported |-> r.cerr,
                          rearmed |-> rearm, open |-> socket_open[n],
                          logged |-> h.ec = "error", dangling |-> dangling])
                  ELSE @]
    /\ UNCHANGED <<key_provider_, current_iv_counter_, user_callback_, receive_callback_,
                   socket_open, receive_buffer_, remote_endpoint_, send_log,
                   provider, reads,
                   send_completions, secure_alive, app_holds_base, nodeVars, orderVars, pipelineVars>>

HandleReceive(n, prim_ok) ==
    /\ Len(rx_log[n]) < MaxRecv
    /\ HandleReceiveRun(n, prim_ok, TRUE)
    /\ UNCHANGED unrecorded_runs

(***************************************************************************)
(* The runs of HandleReceive after rx_log holds MaxRecv entries: the same  *)
(* handler, leaving no entry.  unrecorded_runs counts them modulo 2.       *)
(***************************************************************************)
HandleReceiveUnrecorded(n, prim_ok) ==
    /\ Len(rx_log[n]) >= MaxRecv
    /\ HandleReceiveRun(n, prim_ok, FALSE)
    /\ unrecorded_runs' = [unrecorded_runs EXCEPT ![n] = 1 - @]

(***************************************************************************)
(* Completion of the oldest async_send_to outstanding on the socket of n:  *)
(* its handler runs with success when the datagram left and with           *)
(* bad_descriptor when the socket was closed.  The buffer of the send is   *)
(* encrypted_packet, a local of TransportAES256::Send, which is destroyed   *)
(* when Send returns; the handler runs from the io_context after that.     *)
(* The entry keeps whether the buffer existed up to the run of the handler *)
(* and what the socket took from it.                                       *)
(***************************************************************************)
HandedSends(n) == {i \in 1 .. Len(send_log[n]) : send_log[n][i].handed # <<>>}

CompletedSends(n) == {send_completions[n][k].send : k \in 1 .. Len(send_completions[n])}

OutstandingSends(n) == HandedSends(n) \ CompletedSends(n)

SendCompletes(n) ==
    /\ OutstandingSends(n) # {}
    /\ LET i == CHOOSE j \in OutstandingSends(n) : \A k \in OutstandingSends(n) : j <= k
           ec == IF send_log[n][i].transmitted THEN "ok" ELSE "bad_descriptor"
           data_size == Len(send_log[n][i].handed[1].data)
           r == UdpSendHandler(ec, IF ec = "ok" THEN data_size ELSE 0, data_size)
           encrypted_packet_alive == FALSE
       IN  \E b \in IF ec = "ok"
                    THEN SocketReads(encrypted_packet_alive, send_log[n][i].handed[1].data)
                    ELSE {[wire |-> <<>>, fault |-> FALSE]} :
               send_completions' = [send_completions EXCEPT ![n] = Append(@,
                   [send |-> i, ec |-> ec, cerr |-> r.cerr, signals |-> r.signals,
                    buffer_alive |-> encrypted_packet_alive,
                    wire |-> b.wire, fault |-> b.fault])]
    /\ UNCHANGED <<channelVars, lifeVars, nodeVars, orderVars, pipelineVars>>

(***************************************************************************)
(* The application destroys the TransportAES256 of n (the class declares   *)
(* no destructor: the members are released and the callback registered on  *)
(* the base transport stays), or drops its own shared_ptr to the           *)
(* UdpTransport.  The UdpTransport is destroyed with its last owner.       *)
(***************************************************************************)
DestroySecure(n) ==
    /\ secure_alive[n]
    /\ secure_alive' = [secure_alive EXCEPT ![n] = FALSE]
    /\ base_alive' = [base_alive EXCEPT ![n] =
           OwningReferences(FALSE, app_holds_base[n],
                            pending_receives[n], ready_handlers[n]) > 0]
    /\ UNCHANGED <<channelVars, send_completions, app_holds_base, nodeVars, orderVars, pipelineVars>>

ReleaseBase(n) ==
    /\ app_holds_base[n]
    /\ app_holds_base' = [app_holds_base EXCEPT ![n] = FALSE]
    /\ base_alive' = [base_alive EXCEPT ![n] =
           OwningReferences(secure_alive[n], FALSE,
                            pending_receives[n], ready_handlers[n]) > 0]
    /\ UNCHANGED <<channelVars, send_completions, secure_alive, nodeVars, orderVars, pipelineVars>>

(***************************************************************************)
(* The media and control transports.  ControlStart is StartReceive called  *)
(* on the ControlUdpTransport; the QuicNgTcp2Transport is created and      *)
(* started by HCSNode::Start.  A datagram reaches a receive outstanding on *)
(* a socket that has a local address; a receive can also complete with an  *)
(* I/O error.                                                              *)
(***************************************************************************)
Started(k) == transports[k].starts # <<>>

ControlStart(open_ok, bind_ok) ==
    /\ Len(transports[Control].starts) < MaxStarts
    /\ transports' = [transports EXCEPT ![Control] =
           ControlStartReceive(@, "topology_manager_", open_ok, bind_ok)]
    /\ UNCHANGED <<channelVars, send_completions, lifeVars, hcs_node, orderVars, pipelineVars>>

MediaArrival(k, bytes_recvd, authentic) ==
    /\ transports[k].outstanding > 0
    /\ transports[k].socket_ = "bound"
    /\ Len(transports[k].runs) + Len(transports[k].queued) < MaxRuns
    /\ transports' = [transports EXCEPT ![k] =
           [@ EXCEPT !.outstanding = @ - 1,
                     !.queued = Append(@, [ec |-> "ok", bytes_recvd |-> bytes_recvd,
                                           authentic |-> authentic])]]
    /\ UNCHANGED <<channelVars, send_completions, lifeVars, hcs_node, orderVars, pipelineVars>>

MediaReceiveError(k) ==
    /\ transports[k].outstanding > 0
    /\ Len(transports[k].runs) + Len(transports[k].queued) < MaxRuns
    /\ transports' = [transports EXCEPT ![k] =
           [@ EXCEPT !.outstanding = @ - 1,
                     !.queued = Append(@, [ec |-> "error", bytes_recvd |-> 0,
                                           authentic |-> FALSE])]]
    /\ UNCHANGED <<channelVars, send_completions, lifeVars, hcs_node, orderVars, pipelineVars>>

MediaHandleReceive(k) ==
    /\ transports[k].queued # <<>>
    /\ Len(transports[k].runs) < MaxRuns
    /\ transports' = [transports EXCEPT ![k] =
           IF k = Quic
           THEN QuicHandleReceive(@, Head(@.queued))
           ELSE ControlHandleReceive(@, Head(@.queued))]
    /\ UNCHANGED <<channelVars, send_completions, lifeVars, hcs_node, orderVars, pipelineVars>>

ControlStop ==
    /\ Started(Control)
    /\ transports[Control].socket_ # "closed"
    /\ transports' = [transports EXCEPT ![Control] = MediaStop(@)]
    /\ UNCHANGED <<channelVars, send_completions, lifeVars, hcs_node, orderVars, pipelineVars>>

QuicSend(encrypt_ok) ==
    /\ Started(Quic)
    /\ Len(transports[Quic].sends) < MaxMediaSends
    /\ transports' = [transports EXCEPT ![Quic] = QuicAsyncSendTo(@, encrypt_ok)]
    /\ UNCHANGED <<channelVars, send_completions, lifeVars, hcs_node, orderVars, pipelineVars>>

(***************************************************************************)
(* HCSNode::Start and HCSNode::Stop.  calls records each call of Start:    *)
(* its argument, what it threw, and the component pointers and the media   *)
(* socket before and after.  Stop stops and resets the components that are *)
(* set; stopping the media transport closes its socket.                    *)
(***************************************************************************)
HCSNodeStart(key_provider, open_ok, bind_ok) ==
    /\ Len(hcs_node.calls) < MaxNodeStarts
    /\ key_provider # "null" => ~hcs_node.media_transport_ /\ ~Started(Quic)
    /\ \E r \in {HCSNodeStartCall(hcs_node, transports[Quic], key_provider,
                                  open_ok, bind_ok)} :
          /\ hcs_node' = [r.node EXCEPT !.calls = Append(@,
                 [key_provider |-> key_provider, thrown |-> r.thrown,
                  before |-> NodeComponents(hcs_node),
                  after |-> NodeComponents(r.node),
                  socket_before |-> transports[Quic].socket_,
                  socket_after |-> r.quic.socket_,
                  started |-> r.quic.starts # <<>>])]
          /\ transports' = [transports EXCEPT ![Quic] = r.quic]
    /\ UNCHANGED <<channelVars, send_completions, lifeVars, orderVars, pipelineVars>>

HCSNodeStop ==
    /\ hcs_node.media_transport_
    /\ hcs_node' = [hcs_node EXCEPT !.media_transport_ = FALSE,
                                    !.topology_manager_ = FALSE,
                                    !.stream_encoder_ = FALSE,
                                    !.stream_decoder_ = FALSE]
    /\ transports' = [transports EXCEPT ![Quic] = MediaStop(@)]
    /\ UNCHANGED <<channelVars, send_completions, lifeVars, orderVars, pipelineVars>>

(***************************************************************************)
(* A use of Endpoint as an ordered key: every pair of the three operands   *)
(* is compared with operator< and operator==.                              *)
(***************************************************************************)
Compare ==
    /\ relation.less = <<>>
    /\ relation' =
          [less |-> [i \in 1 .. 3 |-> [j \in 1 .. 3 |->
                        EndpointLess(operands[i], operands[j])]],
           equal |-> [i \in 1 .. 3 |-> [j \in 1 .. 3 |->
                        EndpointEq(operands[i], operands[j])]]]
    /\ UNCHANGED <<channelVars, send_completions, lifeVars, nodeVars, operands,
                   pipelineVars>>

(***************************************************************************)
(* TopologyManager.  The steady clock advances; ADVERTISE and HEARTBEAT    *)
(* messages are handled and CheckParentHealth is called, MaxTopologyCalls  *)
(* calls in all.  check keeps the last call of CheckParentHealth: its      *)
(* group, the parent it found, for how many ticks that parent had been     *)
(* silent, the maps before and after, and the groups advertised since.     *)
(* The clock is read from the first call on.                               *)
(***************************************************************************)
TopologyTick ==
    /\ topology.calls > 0
    /\ topology.now < MaxClock
    /\ topology' = [topology EXCEPT !.now = @ + 1]
    /\ UNCHANGED <<channelVars, send_completions, lifeVars, nodeVars, orderVars, encoder>>

TopologyAdvertise(msg) ==
    /\ topology.calls < MaxTopologyCalls
    /\ topology' = [HandleAdvertise(topology, msg) EXCEPT
                       !.calls = @ + 1,
                       !.check.advertised = @ \cup msg.groups]
    /\ UNCHANGED <<channelVars, send_completions, lifeVars, nodeVars, orderVars, encoder>>

TopologyHeartbeat(ip, group_id) ==
    /\ topology.calls < MaxTopologyCalls
    /\ topology' = [HandleHeartbeat(topology, ip, group_id) EXCEPT !.calls = @ + 1]
    /\ UNCHANGED <<channelVars, send_completions, lifeVars, nodeVars, orderVars, encoder>>

TopologyCheck(group_id) ==
    /\ topology.calls < MaxTopologyCalls
    /\ LET parent_ip == SelectBestParent(topology, group_id)
           found == parent_ip \in DOMAIN topology.neighbor_nodes_
           r == CheckParentHealth(topology, group_id)
       IN  topology' = [r EXCEPT
               !.calls = @ + 1,
               !.check = [group_id |-> group_id, parent_ip |-> parent_ip,
                          silent |-> IF found
                                     THEN topology.now
                                          - topology.neighbor_nodes_[parent_ip].last_advertise_time
                                     ELSE 0,
                          found |-> found,
                          before |-> topology.best_scores_, after |-> r.best_scores_,
                          peers_before |-> topology.neighbor_nodes_,
                          peers_after |-> r.neighbor_nodes_,
                          advertised |-> {}]]
    /\ UNCHANGED <<channelVars, send_completions, lifeVars, nodeVars, orderVars, encoder>>

(***************************************************************************)
(* StreamEncoder.  The application starts publishing and stops; the timer  *)
(* expires; the io_context runs the handler at the head of its queue.      *)
(***************************************************************************)
EncoderStartPublishing ==
    /\ encoder.publishes < MaxPublishes
    /\ encoder' = StartPublishing(encoder)
    /\ UNCHANGED <<channelVars, send_completions, lifeVars, nodeVars, orderVars, topology>>

EncoderTimerExpires ==
    /\ encoder.waits > 0
    /\ Len(encoder.runs) + Len(encoder.queued) < MaxTimerRuns
    /\ encoder' = [encoder EXCEPT !.waits = @ - 1, !.queued = Append(@, "ok")]
    /\ UNCHANGED <<channelVars, send_completions, lifeVars, nodeVars, orderVars, topology>>

EncoderStop ==
    /\ encoder' = StreamEncoderStop(encoder)
    /\ UNCHANGED <<channelVars, send_completions, lifeVars, nodeVars, orderVars, topology>>

EncoderHandlerRuns ==
    /\ encoder.queued # <<>>
    /\ Len(encoder.runs) < MaxTimerRuns
    /\ encoder' = HandleEncodingTimer([encoder EXCEPT !.queued = Tail(@)],
                                      Head(encoder.queued))
    /\ UNCHANGED <<channelVars, send_completions, lifeVars, nodeVars, orderVars, topology>>

Next ==
    \/ \E n \in Receivers : Start(n)
    \/ \E n \in Receivers : Stop(n)
    \/ \E n \in Receivers, callback \in Callbacks : SetReceiveCallback(n, callback)
    \/ \E n \in Senders, data \in Plaintexts, r \in Receivers :
          Send(n, data, EndpointOf(r), TRUE)
    \/ \E n \in Receivers :
          /\ pending_receives[n] > 0
          /\ \E dgram \in Arrivals(n) : ReceiveCompletes(n, dgram)
    \/ \E n \in Receivers : ReceiveFails(n)
    \/ \E n \in Receivers, prim_ok \in BOOLEAN : HandleReceive(n, prim_ok)

TamperNext ==
    \/ \E n \in Receivers : Start(n)
    \/ \E n \in Receivers : SetReceiveCallback(n, "c1")
    \/ \E n \in Senders, data \in Plaintexts, r \in Receivers :
          Send(n, data, EndpointOf(r), TRUE)
    \/ \E n \in Receivers :
          /\ pending_receives[n] > 0
          /\ Len(rx_log[n]) + Len(ready_handlers[n]) < MaxTampered
          /\ \E dgram \in Transmitted(n) \cup BodyTampered(n) : ReceiveCompletes(n, dgram)
    \/ \E n \in Receivers : HandleReceive(n, TRUE)

SendNext ==
    \/ \E n \in Senders : Stop(n)
    \/ \E n \in Senders, data \in Plaintexts, destination \in Destinations,
          prim_ok \in BOOLEAN : Send(n, data, destination, prim_ok)
    \/ \E n \in Senders : SendCompletes(n)

(***************************************************************************)
(* ProviderNext: the provider alone.  KeyNext: the provider read while the *)
(* transports built on it send, receive, start and stop.                   *)
(***************************************************************************)
ProviderNext ==
    \/ GetEncryptionKey
    \/ GetSalt

KeyNext ==
    \/ GetEncryptionKey
    \/ GetSalt
    \/ /\ provider.thrown = "none"
       /\ \/ \E n \in Receivers : Start(n)
          \/ \E n \in Nodes : Stop(n)
          \/ \E n \in Senders, data \in Plaintexts, r \in Receivers :
                Send(n, data, EndpointOf(r), TRUE)
          \/ \E n \in Receivers :
                /\ pending_receives[n] > 0
                /\ \E dgram \in Transmitted(n) : ReceiveCompletes(n, dgram)
          \/ \E n \in Receivers : HandleReceive(n, TRUE)

Spec == Init /\ [][Next]_vars

ProviderSpec == KeyInit /\ [][ProviderNext]_vars

KeySpec == KeyInit /\ [][KeyNext]_vars

TamperSpec == TamperInit /\ [][TamperNext]_vars

SendSpec == SendInit /\ [][SendNext]_vars

(***************************************************************************)
(* LifeNext: the transports used while the application destroys the        *)
(* TransportAES256 and gives up the UdpTransport.  The application calls   *)
(* no method of a TransportAES256 it has destroyed.                        *)
(***************************************************************************)
LifeNext ==
    \/ \E n \in Receivers : secure_alive[n] /\ Start(n)
    \/ \E n \in Receivers : secure_alive[n] /\ Stop(n)
    \/ \E n \in Receivers : secure_alive[n] /\ SetReceiveCallback(n, "c1")
    \/ \E n \in Senders, data \in Plaintexts, r \in Receivers :
          secure_alive[n] /\ Send(n, data, EndpointOf(r), TRUE)
    \/ \E n \in Senders : SendCompletes(n)
    \/ \E n \in Receivers :
          /\ pending_receives[n] > 0
          /\ \E dgram \in Transmitted(n) : ReceiveCompletes(n, dgram)
    \/ \E n \in Receivers : HandleReceive(n, TRUE)
    \/ \E n \in Nodes : DestroySecure(n)
    \/ \E n \in Nodes : ReleaseBase(n)

(***************************************************************************)
(* LoopNext: the receive loop of one UdpTransport, run for as long as the  *)
(* io_context has handlers; the application does not start a transport it  *)
(* has stopped.  The io_context runs every queued handler (weak fairness    *)
(* of the handler runs).                                                    *)
(***************************************************************************)
LoopNext ==
    \/ \E n \in Receivers : socket_open[n] /\ Start(n)
    \/ \E n \in Receivers : Stop(n)
    \/ \E n \in Receivers :
          /\ pending_receives[n] > 0
          /\ \E dgram \in Injected : ReceiveCompletes(n, dgram)
    \/ \E n \in Receivers : ReceiveFails(n)
    \/ \E n \in Receivers : HandleReceive(n, TRUE)
    \/ \E n \in Receivers : HandleReceiveUnrecorded(n, TRUE)

HandlerRuns ==
    \E n \in Receivers : HandleReceive(n, TRUE) \/ HandleReceiveUnrecorded(n, TRUE)

(***************************************************************************)
(* NodeNext: HCSNode with its media transport, and the control transport.  *)
(***************************************************************************)
NodeNext ==
    \/ \E key_provider \in KeyProviders, open_ok \in BOOLEAN, bind_ok \in BOOLEAN :
          HCSNodeStart(key_provider, open_ok, bind_ok)
    \/ HCSNodeStop
    \/ \E open_ok \in BOOLEAN, bind_ok \in BOOLEAN : ControlStart(open_ok, bind_ok)
    \/ ControlStop
    \/ \E k \in MediaKinds, bytes_recvd \in 0 .. 1, authentic \in BOOLEAN :
          MediaArrival(k, bytes_recvd, authentic)
    \/ \E k \in MediaKinds : MediaReceiveError(k)
    \/ \E k \in MediaKinds : MediaHandleReceive(k)
    \/ \E encrypt_ok \in BOOLEAN : QuicSend(encrypt_ok)

OrderNext == Compare

LifeSpec == LifeInit /\ [][LifeNext]_vars

LoopSpec == Init /\ [][LoopNext]_vars /\ WF_vars(HandlerRuns)

NodeSpec == NodeInit /\ [][NodeNext]_vars

OrderSpec == OrderInit /\ [][OrderNext]_vars

(***************************************************************************)
(* TopologyNext: the TopologyManager alone.  EncoderNext: the              *)
(* StreamEncoder alone.                                                    *)
(***************************************************************************)
TopologyNext ==
    \/ TopologyTick
    \/ \E msg \in AdvertiseMessages : TopologyAdvertise(msg)
    \/ \E ip \in Ips, group_id \in Groups : TopologyHeartbeat(ip, group_id)
    \/ \E group_id \in Groups : TopologyCheck(group_id)

EncoderNext ==
    \/ EncoderStartPublishing
    \/ EncoderTimerExpires
    \/ EncoderStop
    \/ EncoderHandlerRuns

(***************************************************************************)
(* StartNext: a raw transport started more than once, with datagrams       *)
(* arriving.                                                               *)
(***************************************************************************)
StartNext ==
    \/ \E n \in Receivers : socket_open[n] /\ Start(n)
    \/ \E n \in Receivers : socket_open[n] /\ StartAgain(n)
    \/ \E n \in Receivers : Stop(n)
    \/ \E n \in Receivers :
          /\ pending_receives[n] > 0
          /\ \E dgram \in Injected : ReceiveCompletes(n, dgram)
    \/ \E n \in Receivers : HandleReceive(n, TRUE)

StartSpec == Init /\ [][StartNext]_vars

(***************************************************************************)
(* CallbackNext: datagrams sent by a are delivered to callbacks of b that  *)
(* return, throw std::logic_error or throw std::runtime_error.             *)
(***************************************************************************)
CallbackNext ==
    \/ \E n \in Receivers : Start(n)
    \/ \E n \in Receivers, callback \in AllCallbacks : SetReceiveCallback(n, callback)
    \/ \E n \in Senders, data \in Plaintexts, r \in Receivers :
          Send(n, data, EndpointOf(r), TRUE)
    \/ \E n \in Receivers :
          /\ pending_receives[n] > 0
          /\ \E dgram \in Transmitted(n) : ReceiveCompletes(n, dgram)
    \/ \E n \in Receivers : HandleReceive(n, TRUE)

CallbackSpec == NodeInit /\ [][CallbackNext]_vars

TopologySpec == NodeInit /\ [][TopologyNext]_vars

EncoderSpec == NodeInit /\ [][EncoderNext]_vars

(***************************************************************************)
(* Vocabulary of the properties.                                           *)
(***************************************************************************)
Entries(log) == {log[i] : i \in 1 .. Len(log)}

Received(n) == {r \in Entries(rx_log[n]) : r.ec = "ok"}

Handed(m) == {e \in Entries(send_log[m]) : e.handed # <<>>}

PacketOf(e) == e.handed[1].data

NonceOf(packet) == SubSeq(packet, 1, 12)

CiphertextOf(packet) == SubSeq(packet, 13, Len(packet) - 16)

TagOf(packet) == SubSeq(packet, Len(packet) - 15, Len(packet))

Authentic(key, packet) ==
    /\ Len(key) = 32
    /\ Len(packet) >= 28
    /\ TagOf(packet) = GcmTag(key, NonceOf(packet), CiphertextOf(packet))

(***************************************************************************)
(* C1  Fail-closed receive.  In every run of the receive path on a         *)
(* datagram, the user callback is invoked only if the datagram             *)
(* authenticates under the provider's key and no primitive failed; when    *)
(* decryption fails (short, key size, primitive, tag) the callback is not  *)
(* invoked and no exception leaves DecryptAndHandle.                       *)
(***************************************************************************)
C1_FailClosed ==
    \A n \in Nodes : \A r \in Received(n) :
        /\ r.calls # <<>> => Authentic(key_provider_[n], r.data) /\ r.decrypt = "none"
        /\ ~Authentic(key_provider_[n], r.data) => r.decrypt \in {"short", "key", "prim", "auth"}
        /\ r.decrypt # "none" => r.calls = <<>> /\ r.escaped = "none"

C1_Witness ==
    \E n \in Nodes : \E r \in Received(n) :
        /\ r.callback # "none"
        /\ r.decrypt = "auth"
        /\ r.calls = <<>>

(***************************************************************************)
(* C2  Short-frame rejection.  A datagram of 0..27 bytes is rejected as    *)
(* too short, with no callback and no escaping exception; a datagram of    *)
(* exactly 28 bytes is not too short: it is verified as a frame whose      *)
(* nonce is its first 12 bytes, whose tag is its last 16 bytes and whose   *)
(* ciphertext is empty, and on success the plaintext delivered is empty.   *)
(***************************************************************************)
C2_ShortFrame ==
    \A n \in Nodes : \A r \in Received(n) :
        /\ Len(r.data) < 28 =>
              r.decrypt = "short" /\ r.calls = <<>> /\ r.escaped = "none"
        /\ Len(r.data) = 28 =>
              /\ r.decrypt # "short"
              /\ r.decrypt \in {"none", "auth"} =>
                    (r.decrypt = "none" <=>
                        SubSeq(r.data, 13, 28) =
                            GcmTag(key_provider_[n], SubSeq(r.data, 1, 12), <<>>))
              /\ \A i \in 1 .. Len(r.calls) : r.calls[i].data = <<>>

C2_Witness ==
    \E n \in Nodes : \E r \in Received(n) :
        /\ Len(r.data) = 27
        /\ r.callback # "none"
        /\ r.decrypt = "short"

(***************************************************************************)
(* C3  Delivery.  When a received frame authenticates and a callback is    *)
(* registered, the callback is invoked exactly once, with the plaintext    *)
(* given to the Send that produced the frame and with the sender endpoint  *)
(* the raw transport reported.                                             *)
(***************************************************************************)
C3_DeliveredOnce ==
    \A n \in Nodes : \A r \in Received(n) :
        (r.decrypt = "none" /\ r.callback # "none") =>
            /\ Len(r.calls) = 1
            /\ r.calls[1].cb = r.callback
            /\ r.calls[1].sender = r.sender
            /\ \E m \in Nodes : \E e \in Handed(m) : PacketOf(e) = r.data
            /\ \A m \in Nodes : \A e \in Handed(m) :
                  PacketOf(e) = r.data => r.calls[1].data = e.data

C3_Witness ==
    \E n \in Nodes : \E r \in Received(n) :
        /\ r.decrypt = "none"
        /\ r.callback # "none"
        /\ Len(r.calls) = 1
        /\ r.calls[1].data # <<>>

(***************************************************************************)
(* C4  Round trip.  Every frame Encrypt produced for plaintext P under a   *)
(* 32-byte key K splits into nonce = first 12 bytes, tag = last 16 bytes,  *)
(* ciphertext = the rest, and Decrypt under K returns exactly P; a         *)
(* receiver holding K that gets the frame unchanged delivers P.            *)
(***************************************************************************)
C4_RoundTrip ==
    /\ \A m \in Nodes : \A e \in Handed(m) :
          LET d == Decrypt(key_provider_[m], PacketOf(e), TRUE)
              parts == SplitPacket(PacketOf(e))
          IN  /\ parts.iv = NonceOf(PacketOf(e))
              /\ parts.ciphertext = CiphertextOf(PacketOf(e))
              /\ parts.tag = TagOf(PacketOf(e))
              /\ d.thrown = "none"
              /\ d.plaintext = e.data
    /\ \A n \in Nodes : \A r \in Received(n) : \A m \in Nodes : \A e \in Handed(m) :
          (PacketOf(e) = r.data /\ key_provider_[n] = key_provider_[m] /\ r.decrypt # "prim")
          => /\ r.decrypt = "none"
             /\ \A i \in 1 .. Len(r.calls) : r.calls[i].data = e.data

C4_Witness ==
    \E m \in Nodes : \E e \in Handed(m) :
        /\ e.data # <<>>
        /\ \E n \in Nodes : \E r \in Received(n) :
              /\ r.data = PacketOf(e)
              /\ r.decrypt = "none"
              /\ r.calls # <<>>
              /\ r.calls[1].data = e.data

(***************************************************************************)
(* C5  Tamper rejection.  Whenever the receive path handles a datagram     *)
(* that is a transmitted frame with one bit of its ciphertext or tag       *)
(* region flipped, decryption fails on the tag and the callback is not     *)
(* invoked.  TamperSpec delivers every such flip of every frame.           *)
(***************************************************************************)
Differing(packet, frame) == {i \in 1 .. Len(frame) : packet[i] # frame[i]}

BodyFlipOf(packet, frame) ==
    /\ Len(packet) = Len(frame)
    /\ \E pos \in 13 .. Len(frame) :
          /\ Differing(packet, frame) = {pos}
          /\ Xor8(packet[pos], frame[pos]) \in {1, 2, 4, 8, 16, 32, 64, 128}

C5_TamperRejected ==
    \A n \in Nodes : \A r \in Received(n) :
        (\E m \in Nodes : \E e \in Handed(m) : BodyFlipOf(r.data, PacketOf(e)))
        => /\ r.decrypt = "auth"
           /\ r.calls = <<>>
           /\ ~Authentic(key_provider_[n], r.data)

C5_Witness ==
    \E n \in Nodes : \E r \in Received(n) :
        /\ r.callback # "none"
        /\ r.decrypt = "auth"
        /\ \E m \in Nodes : \E e \in Handed(m) :
              /\ key_provider_[m] = key_provider_[n]
              /\ BodyFlipOf(r.data, PacketOf(e))

(***************************************************************************)
(* C6  Wrong-key rejection.  A frame produced under key K1 fails to        *)
(* decrypt under every other 32-byte key K2, and a receiver whose provider *)
(* returns such a K2 never hands it to its callback.                       *)
(***************************************************************************)
OtherKeys ==
    {KeyAA, KeyBB, [KeyAA EXCEPT ![1] = 171], [KeyAA EXCEPT ![32] = 171],
     [KeyBB EXCEPT ![16] = 59]}

C6_WrongKeyRejected ==
    /\ \A m \in Nodes : \A e \in Handed(m) :
          \A k2 \in OtherKeys \ {key_provider_[m]} :
              Decrypt(k2, PacketOf(e), TRUE).thrown = "auth"
    /\ \A n \in Nodes : \A r \in Received(n) : \A m \in Nodes : \A e \in Handed(m) :
          (PacketOf(e) = r.data /\ key_provider_[n] # key_provider_[m])
          => r.decrypt # "none" /\ r.calls = <<>>

C6_Witness ==
    \E n \in Nodes : \E r \in Received(n) : \E m \in Nodes : \E e \in Handed(m) :
        /\ PacketOf(e) = r.data
        /\ key_provider_[n] # key_provider_[m]
        /\ Len(key_provider_[n]) = 32
        /\ r.callback # "none"
        /\ r.decrypt = "auth"

(***************************************************************************)
(* C7  Nonce uniqueness.  Within one TransportAES256 the nonces of the     *)
(* frames emitted by its Sends are pairwise distinct, so any two emitted   *)
(* frames differ, also for equal (even empty) payloads.  Checked for the   *)
(* MaxSends consecutive Sends of a session, from seeds at which the        *)
(* increment carries into the next byte and into the upper 32 bits.        *)
(***************************************************************************)
C7_NonceUnique ==
    \A n \in Nodes : \A i, j \in 1 .. Len(send_log[n]) :
        (i < j /\ send_log[n][i].handed # <<>> /\ send_log[n][j].handed # <<>>) =>
            /\ NonceOf(PacketOf(send_log[n][i])) # NonceOf(PacketOf(send_log[n][j]))
            /\ PacketOf(send_log[n][i]) # PacketOf(send_log[n][j])

C7_Witness ==
    \E n \in Nodes :
        /\ Len(send_log[n]) >= 2
        /\ send_log[n][1].handed # <<>>
        /\ send_log[n][2].handed # <<>>
        /\ send_log[n][1].data = <<>>
        /\ send_log[n][2].data = <<>>
        /\ send_log[n][1].destination = send_log[n][2].destination
        /\ Len(PacketOf(send_log[n][1])) = 28

(***************************************************************************)
(* C8  Nonce layout as claimed: bytes 0..3 are 00 00 00 01 and bytes       *)
(* 4..11 hold the counter used for the send in little-endian order, byte   *)
(* 4 being the least significant byte of the counter.                      *)
(***************************************************************************)
C8_NonceLittleEndian ==
    \A n \in Nodes : \A e \in Handed(n) :
        /\ SubSeq(PacketOf(e), 1, 4) = <<0, 0, 0, 1>>
        /\ \A i \in 0 .. 7 : PacketOf(e)[4 + i + 1] = e.iv_value[i + 1]

(***************************************************************************)
(* C9  Frame layout.  For a plaintext of N bytes that Encrypt accepts, the *)
(* base transport is handed exactly one datagram of N + 28 bytes: the      *)
(* nonce of this send at offset 0 (12 bytes), the GCM ciphertext of the    *)
(* plaintext at offset 12 (N bytes), the GCM tag at offset 12 + N (16      *)
(* bytes), together with the destination given to Send.                    *)
(***************************************************************************)
C9_FrameLayout ==
    \A n \in Nodes : \A e \in Entries(send_log[n]) :
        e.thrown = "none" =>
            /\ Len(e.handed) = 1
            /\ e.handed[1].destination = e.destination
            /\ LET packet == e.handed[1].data
                   size == Len(e.data)
                   nonce == SubSeq(packet, 1, 12)
                   ciphertext == SubSeq(packet, 13, 12 + size)
               IN  /\ Len(packet) = size + 28
                   /\ nonce = MakeIv(e.iv_value)
                   /\ ciphertext = GcmCrypt(key_provider_[n], nonce, e.data)
                   /\ SubSeq(packet, 13 + size, 28 + size) =
                          GcmTag(key_provider_[n], nonce, ciphertext)

C9_Witness ==
    \E n \in Nodes : \E e \in Entries(send_log[n]) :
        /\ e.thrown = "none"
        /\ Len(e.data) = 1
        /\ e.destination = EndpointOf("b")
        /\ Len(e.handed[1].data) = 29

(***************************************************************************)
(* C10  The counter and Send.  As claimed: every call of Send advances     *)
(* the counter by exactly one, whatever its outcome.                       *)
(***************************************************************************)
IsSuccessor(c, d) ==
    \E k \in 1 .. 8 :
        /\ \A i \in 1 .. (k - 1) : c[i] = 255 /\ d[i] = 0
        /\ d[k] = c[k] + 1
        /\ \A i \in (k + 1) .. 8 : d[i] = c[i]

SendStep(n) == Len(send_log'[n]) > Len(send_log[n])

C10_EverySendAdvances ==
    [][\A n \in Nodes :
          SendStep(n) => IsSuccessor(current_iv_counter_[n], current_iv_counter_'[n])]_vars

(***************************************************************************)
(* C10 as amended.  A Send whose provider key has 32 bytes advances the    *)
(* counter by exactly one, whether or not the cipher primitives then       *)
(* succeed; a Send rejected for the size of its key leaves the counter     *)
(* unchanged; no other step changes the counter.                           *)
(***************************************************************************)
C10_CounterAdvance ==
    [][\A n \in Nodes :
          IF SendStep(n)
          THEN IF Len(key_provider_[n]) = 32
               THEN IsSuccessor(current_iv_counter_[n], current_iv_counter_'[n])
               ELSE current_iv_counter_'[n] = current_iv_counter_[n]
          ELSE current_iv_counter_'[n] = current_iv_counter_[n]]_vars

C10_Witness ==
    \E n \in Nodes : \E e \in Entries(send_log[n]) :
        /\ e.thrown = "prim"
        /\ current_iv_counter_[n] # e.iv_value
        /\ Len(send_log[n]) = 1

C12_StartRejectsBadKey ==
    \A n \in Nodes :
        Len(key_provider_[n]) # AES256_KEY_SIZE =>
            /\ pending_receives[n] = 0
            /\ ready_handlers[n] = <<>>
            /\ rx_log[n] = <<>>

(***************************************************************************)
(* C13  Stop is safe to repeat.  In every reachable state, Stop raises     *)
(* nothing and leaves the socket closed, and a second Stop right after it  *)
(* raises nothing and changes nothing the first one left.                  *)
(***************************************************************************)
C13_StopRepeatable ==
    \A n \in Nodes :
        LET s1 == UdpStop(socket_open[n], pending_receives[n], ready_handlers[n])
            s2 == UdpStop(s1.open, s1.pending, s1.ready)
        IN  /\ s1.thrown = "none"
            /\ ~s1.open
            /\ s2 = s1

C13_Witness ==
    \E n \in Nodes :
        /\ ~socket_open[n]
        /\ \E i \in 1 .. Len(ready_handlers[n]) : ready_handlers[n][i].ec = "aborted"

(***************************************************************************)
(* C14  Stop releases the callback.  Every step in which the secure        *)
(* transport's Stop closes the socket leaves the callback slot empty.      *)
(***************************************************************************)
C14_StopReleasesCallback ==
    [][\A n \in Nodes :
          (socket_open[n] /\ ~socket_open'[n]) => user_callback_'[n] = "none"]_vars

(***************************************************************************)
(* C15  SetReceiveCallback replaces the sink.  From every reachable state  *)
(* SetReceiveCallback(c) leaves c in the callback slot, whatever was       *)
(* registered before, and leaves the callback registered on the base       *)
(* transport (DecryptAndHandle) as it was; every frame handled afterwards  *)
(* is delivered only to the callback in the slot at that time.             *)
(***************************************************************************)
C15_ReplacesSink ==
    \A n \in Nodes :
        /\ receive_callback_[n] = "DecryptAndHandle"
        /\ \A c \in Callbacks :
              ENABLED (/\ SetReceiveCallback(n, c)
                       /\ user_callback_'[n] = c
                       /\ receive_callback_' = receive_callback_)
        /\ \A r \in Received(n) :
              \A i \in 1 .. Len(r.calls) : r.calls[i].cb = r.callback

C15_Witness ==
    \E n \in Nodes : \E i, j \in 1 .. Len(rx_log[n]) :
        /\ i < j
        /\ Len(rx_log[n][i].calls) = 1
        /\ Len(rx_log[n][j].calls) = 1
        /\ rx_log[n][i].calls[1].cb # rx_log[n][j].calls[1].cb
        /\ rx_log[n][j].calls[1].cb = user_callback_[n]

(***************************************************************************)
(* C16  No replay or duplicate detection.  Every handled datagram is       *)
(* verified on its own: unless a primitive failed, it decrypts exactly     *)
(* when it authenticates under the provider's key, whatever was handled    *)
(* before; when the same datagram is handled again it gets the same        *)
(* verdict and the callback registered then is called again with the same  *)
(* plaintext.                                                              *)
(***************************************************************************)
C16_NoReplayDetection ==
    \A n \in Nodes :
        /\ \A r \in Received(n) :
              r.decrypt \notin {"prim", "key"} =>
                  (r.decrypt = "none" <=> Authentic(key_provider_[n], r.data))
        /\ \A i, j \in 1 .. Len(rx_log[n]) :
              LET a == rx_log[n][i]
                  b == rx_log[n][j]
              IN  (/\ i < j
                   /\ a.ec = "ok" /\ b.ec = "ok"
                   /\ a.data = b.data
                   /\ a.decrypt # "prim" /\ b.decrypt # "prim")
                  => /\ b.decrypt = a.decrypt
                     /\ (a.callback # "none" /\ b.callback # "none") =>
                           /\ Len(b.calls) = Len(a.calls)
                           /\ \A k \in 1 .. Len(a.calls) :
                                 b.calls[k].data = a.calls[k].data

C16_Witness ==
    \E n \in Nodes : \E i, j \in 1 .. Len(rx_log[n]) :
        /\ i < j
        /\ rx_log[n][i].data = rx_log[n][j].data
        /\ Len(rx_log[n][i].calls) = 1
        /\ Len(rx_log[n][j].calls) = 1
        /\ rx_log[n][j].calls[1].data # <<>>
        /\ rx_log[n][j].calls[1].data = rx_log[n][i].calls[1].data

(***************************************************************************)
(* Vocabulary of the provider properties: the transports have done         *)
(* nothing, which is all they can do when no provider exists.              *)
(***************************************************************************)
Untouched ==
    /\ reads = <<>>
    /\ \A n \in Nodes :
          send_log[n] = <<>> /\ rx_log[n] = <<>> /\ pending_receives[n] = 0

(***************************************************************************)
(* C17  Supplied salt of the wrong size.  A construction that was given a  *)
(* salt (a non-empty salt_bytes, the empty vector being the constructor's  *)
(* encoding of "no salt") whose length is not 16 throws the salt error     *)
(* and yields no provider: no key, no salt, nothing to read or to use.     *)
(***************************************************************************)
C17_SaltSizeRejected ==
    (provider.salt_bytes # <<>> /\ Len(provider.salt_bytes) # 16) =>
        /\ provider.thrown = "salt"
        /\ provider.derived_key_ = <<>>
        /\ provider.salt_ = <<>>
        /\ Untouched

C17_Witness ==
    /\ Len(provider.salt_bytes) = 17
    /\ provider.kdf_ok
    /\ provider.thrown = "salt"

(***************************************************************************)
(* C18  No partially initialised provider.  A provider that exists (salt   *)
(* omitted or 16 bytes supplied, no failure) holds and returns a 32-byte   *)
(* key and a 16-byte salt; a failure of RAND_bytes or of the derivation    *)
(* aborts construction, and then nothing exists to read or to use.         *)
(***************************************************************************)
C18_FullyInitialised ==
    /\ provider.thrown = "none" =>
          /\ Len(provider.derived_key_) = 32
          /\ Len(provider.salt_) = 16
          /\ provider.salt_bytes = <<>> \/ Len(provider.salt_bytes) = 16
          /\ provider.kdf_ok
          /\ provider.salt_bytes = <<>> => provider.rand_ok
          /\ \A i \in 1 .. Len(reads) :
                Len(reads[i].value) = IF reads[i].op = "GetSalt" THEN 16 ELSE 32
    /\ provider.thrown # "none" =>
          /\ provider.derived_key_ = <<>>
          /\ provider.salt_ = <<>>
          /\ Untouched

C18_Witness ==
    /\ provider.thrown = "none"
    /\ provider.salt_bytes = <<>>
    /\ Len(reads) = 2
    /\ reads[1].op = "GetEncryptionKey"
    /\ reads[2].op = "GetSalt"

(***************************************************************************)
(* C19  Pure reads.  Every GetEncryptionKey returns the key the transports *)
(* use and every GetSalt returns the provider's salt, the supplied one     *)
(* when a salt was supplied; any two reads of the same getter agree,       *)
(* whatever the transports sent, received, started or stopped in between.  *)
(***************************************************************************)
C19_PureReads ==
    /\ \A i \in 1 .. Len(reads) :
          /\ reads[i].op = "GetEncryptionKey" =>
                /\ reads[i].value = provider.derived_key_
                /\ \A n \in Nodes : reads[i].value = key_provider_[n]
          /\ reads[i].op = "GetSalt" =>
                /\ reads[i].value = provider.salt_
                /\ provider.salt_bytes # <<>> => reads[i].value = provider.salt_bytes
    /\ \A i, j \in 1 .. Len(reads) :
          reads[i].op = reads[j].op => reads[i].value = reads[j].value
    /\ provider.thrown = "none" =>
          provider.derived_key_ =
              PKCS5_PBKDF2_HMAC(provider.password, provider.salt_,
                                provider.iterations, PBKDF2_OUTPUT_SIZE)

C19_Witness ==
    /\ Len(reads) = 2
    /\ reads[1].op = "GetSalt"
    /\ reads[2].op = "GetSalt"
    /\ provider.salt_bytes # <<>>
    /\ \E n \in Nodes : send_log[n] # <<>>
    /\ \E n \in Nodes : rx_log[n] # <<>> /\ ~socket_open[n]

(***************************************************************************)
(* C20  Iteration count.  Every provider derives its key with the          *)
(* iteration count the protocol design document states (2048).             *)
(***************************************************************************)
C20_IterationsAsDocumented ==
    provider.thrown = "none" => provider.iterations = DesignDocIterations

(***************************************************************************)
(* C21: Endpoint::operator< is the lexicographic order on (address, port)  *)
(* and a strict total order consistent with operator==: of a < b, b < a    *)
(* and a == b exactly one holds for any two endpoints, a == b holds for    *)
(* equal address and port only, and < is irreflexive and transitive.       *)
(***************************************************************************)
Compared == relation.less # <<>>

Count(b) == IF b THEN 1 ELSE 0

C21_StrictTotalOrder ==
    Compared =>
        \A i, j, k \in 1 .. 3 :
            /\ relation.equal[i][j] <=> operands[i] = operands[j]
            /\ Count(relation.less[i][j]) + Count(relation.less[j][i])
                  + Count(relation.equal[i][j]) = 1
            /\ ~relation.less[i][i]
            /\ relation.less[i][j] /\ relation.less[j][k] => relation.less[i][k]
            /\ relation.less[i][j] <=>
                  IF operands[i].address # operands[j].address
                  THEN StringLess(operands[i].address, operands[j].address)
                  ELSE operands[i].port < operands[j].port

(***************************************************************************)
(* The comparison was made on three endpoints of which two share the       *)
(* address, so that the port decides, and the third has a greater address. *)
(***************************************************************************)
C21_Witness ==
    /\ Compared
    /\ \E i, j, k \in 1 .. 3 :
          /\ operands[i].address = operands[j].address
          /\ operands[j].address # operands[k].address
          /\ relation.less[i][j]
          /\ relation.less[j][k]
          /\ operands[k].port < operands[i].port

(***************************************************************************)
(* C22: every Send of the raw transport reports its completion, success or *)
(* network error, to the caller through a completion signal that belongs   *)
(* to that call, exactly once per call: each run of a send's completion    *)
(* handler delivers one signal to the caller.                              *)
(***************************************************************************)
C22_CompletionSignalled ==
    \A n \in Nodes : \A k \in 1 .. Len(send_completions[n]) :
        Len(send_completions[n][k].signals) = 1

(***************************************************************************)
(* C23: when binding the local address fails at start, the failure is      *)
(* reported and the transport stays non-operational: the start arms no     *)
(* receive, no receive is outstanding or queued afterwards and no datagram *)
(* is delivered to the receive handler.                                    *)
(***************************************************************************)
BindFailed(k) ==
    /\ Started(k)
    /\ transports[k].starts[Len(transports[k].starts)].ec # "ok"

C23_BindFailureStopsTransport ==
    \A k \in MediaKinds :
        BindFailed(k) =>
            /\ transports[k].starts[Len(transports[k].starts)].cerr # <<>>
            /\ ~transports[k].starts[Len(transports[k].starts)].armed
            /\ transports[k].outstanding = 0
            /\ transports[k].queued = <<>>
            /\ \A i \in 1 .. Len(transports[k].runs) : ~transports[k].runs[i].delivered

(***************************************************************************)
(* C29: in QuicNgTcp2Transport and ControlUdpTransport a receive that      *)
(* completes with an I/O error is logged and the receive loop continues:   *)
(* the handler run for the error writes a log line and arms a new receive. *)
(***************************************************************************)
C29_ErrorKeepsLoop ==
    \A k \in MediaKinds : \A i \in 1 .. Len(transports[k].runs) :
        transports[k].runs[i].ec = "error" =>
            /\ transports[k].runs[i].cerr # <<>>
            /\ transports[k].runs[i].rearmed

(***************************************************************************)
(* C30: HCSNode::Start with a null key provider throws before any          *)
(* component is created or started: the call leaves media_transport_,      *)
(* topology_manager_, stream_encoder_ and stream_decoder_ as they were     *)
(* (unset on a node not started before) and opens no socket.               *)
(***************************************************************************)
Unset(components) ==
    /\ ~components.media_transport_
    /\ ~components.topology_manager_
    /\ ~components.stream_encoder_
    /\ ~components.stream_decoder_

C30_NullKeyProviderThrowsFirst ==
    \A i \in 1 .. Len(hcs_node.calls) :
        hcs_node.calls[i].key_provider = "null" =>
            /\ hcs_node.calls[i].thrown = "runtime_error"
            /\ hcs_node.calls[i].after = hcs_node.calls[i].before
            /\ hcs_node.calls[i].socket_after = hcs_node.calls[i].socket_before
            /\ i = 1 => /\ Unset(hcs_node.calls[i].after)
                        /\ hcs_node.calls[i].socket_after = "closed"
                        /\ ~hcs_node.calls[i].started

(***************************************************************************)
(* Start was called with a null key provider on a node just constructed    *)
(* and threw, and the same node was then started with a key provider.      *)
(***************************************************************************)
C30_Witness ==
    /\ Len(hcs_node.calls) = 2
    /\ hcs_node.calls[1].key_provider = "null"
    /\ hcs_node.calls[1].thrown = "runtime_error"
    /\ Unset(hcs_node.calls[1].after)
    /\ hcs_node.calls[2].key_provider # "null"
    /\ hcs_node.calls[2].thrown = "none"
    /\ hcs_node.media_transport_

(***************************************************************************)
(* C24: the receive loop of the raw UDP transport is self-healing: every   *)
(* run of HandleReceive for a completion other than a cancellation arms a  *)
(* new receive, so that a transport that has handled a completion and is   *)
(* not stopped has a receive outstanding whenever no handler is queued.    *)
(***************************************************************************)
C24_SelfHealingLoop ==
    \A n \in Nodes :
        /\ \A i \in 1 .. Len(rx_log[n]) :
              rx_log[n][i].ec # "aborted" => rx_log[n][i].rearmed
        /\ (socket_open[n] /\ rx_log[n] # <<>> /\ ready_handlers[n] = <<>>)
              => pending_receives[n] = 1

(***************************************************************************)
(* C25: once Stop() has been called on the raw UDP transport no receive is *)
(* armed any more: the run of HandleReceive for the cancelled receive      *)
(* writes no error and does not re-arm, and no run of HandleReceive on the *)
(* closed socket, whatever completion it handles, arms a receive.          *)
(***************************************************************************)
C25_NoReceiveAfterStop ==
    \A n \in Nodes : \A i \in 1 .. Len(rx_log[n]) :
        /\ rx_log[n][i].ec = "aborted" =>
              ~rx_log[n][i].rearmed /\ ~rx_log[n][i].logged
        /\ ~rx_log[n][i].open => ~rx_log[n][i].rearmed

(***************************************************************************)
(* C26: with the event loop running its handlers, after Stop() on the raw  *)
(* UDP transport the receive loop becomes quiescent and stays so: from a   *)
(* state with the socket closed a state is reached from which on no        *)
(* receive is outstanding and no handler is queued.                        *)
(***************************************************************************)
Quiescent(n) == pending_receives[n] = 0 /\ ready_handlers[n] = <<>>

C26_QuiescentAfterStop ==
    \A n \in Receivers : (~socket_open[n]) ~> ([]Quiescent(n))

(***************************************************************************)
(* C27 (as stated): while a receive or a send is outstanding on a raw      *)
(* transport the operation owns the transport, so the transport exists     *)
(* until the completion handler has run, for receives and sends alike.     *)
(***************************************************************************)
ReceiveInFlight(n) == pending_receives[n] > 0 \/ ready_handlers[n] # <<>>

C28_NoDanglingCallback ==
    \A n \in Nodes : \A i \in 1 .. Len(rx_log[n]) : ~rx_log[n][i].dangling

(***************************************************************************)
(* C31: SelectBestParent(g) returns the current best parent of g: after    *)
(* any sequence of HandleAdvertise calls (and no reset by                  *)
(* CheckParentHealth) it is a neighbour that advertises membership of g    *)
(* and whose most recently advertised metrics score highest among the      *)
(* neighbours advertising g, and the empty string when no neighbour        *)
(* advertises g.                                                           *)
(***************************************************************************)
Advertisers(group_id) ==
    {ip \in DOMAIN topology.neighbor_nodes_ :
        group_id \in topology.neighbor_nodes_[ip].groups}

PeerScore(ip) == ComputeNodeScore(topology.neighbor_nodes_[ip].metrics)

Checked == topology.check.group_id # ""

C31_BestParentIsCurrentBest ==
    ~Checked =>
        \A group_id \in Groups :
            LET best == SelectBestParent(topology, group_id)
            IN  IF Advertisers(group_id) = {} THEN best = ""
                ELSE /\ best \in Advertisers(group_id)
                     /\ \A ip \in Advertisers(group_id) : PeerScore(best) >= PeerScore(ip)

(***************************************************************************)
(* C32 (as stated): CheckParentHealth(g) resets the selection of g when    *)
(* the parent of g has been silent for more than failover_timeout_sec_     *)
(* seconds, and SelectBestParent(g) is empty until g is advertised again;  *)
(* otherwise the call changes nothing; the selections of the other groups  *)
(* are never changed.                                                      *)
(***************************************************************************)
Reset == topology.check.group_id \notin DOMAIN topology.check.after

Unchanged ==
    /\ topology.check.after = topology.check.before
    /\ topology.check.peers_after = topology.check.peers_before

OthersKept ==
    /\ DOMAIN topology.check.after \ {topology.check.group_id}
          = DOMAIN topology.check.before \ {topology.check.group_id}
    /\ \A group_id \in DOMAIN topology.check.after :
          topology.check.after[group_id] = topology.check.before[group_id]

EmptyUntilAdvertised ==
    topology.check.group_id \notin topology.check.advertised
        => SelectBestParent(topology, topology.check.group_id) = ""

C32_SilentParentReset ==
    Checked =>
        LET silent_too_long ==
                /\ topology.check.found
                /\ topology.check.silent > failover_timeout_sec_ * TicksPerSecond
        IN  /\ silent_too_long => Reset /\ EmptyUntilAdvertised
            /\ ~silent_too_long => Unchanged
            /\ OthersKept

(***************************************************************************)
(* C32 (amended): the silence is measured in whole seconds, the fraction   *)
(* dropped, so the selection of g is reset when the parent has been silent *)
(* for failover_timeout_sec_ + 1 seconds or more; a parent silent for less *)
(* than that, the 5.5 s between included, is kept and nothing changes.     *)
(***************************************************************************)
C32_WholeSecondsReset ==
    Checked =>
        LET silent_too_long ==
                /\ topology.check.found
                /\ topology.check.silent >= (failover_timeout_sec_ + 1) * TicksPerSecond
        IN  /\ silent_too_long => Reset /\ EmptyUntilAdvertised
            /\ ~silent_too_long => Unchanged
            /\ OthersKept

(***************************************************************************)
(* CheckParentHealth found the parent of a group silent for six seconds    *)
(* and reset that group, keeping the selection of another group that has   *)
(* the same parent.                                                        *)
(***************************************************************************)
C32_Witness ==
    /\ Checked
    /\ topology.check.found
    /\ topology.check.silent = (failover_timeout_sec_ + 1) * TicksPerSecond
    /\ Reset
    /\ \E group_id \in DOMAIN topology.check.after :
          topology.check.after[group_id].parent_ip = topology.check.parent_ip
    /\ topology.check.peers_after # <<>>

(***************************************************************************)
(* C33: after StreamEncoder::Stop() the publishing loop terminates: no run *)
(* of HandleEncodingTimer made while the encoder is stopped, the run for a *)
(* timer that had expired before Stop() included, produces or sends a      *)
(* frame or arms the timer again.                                          *)
(***************************************************************************)
C33_NoFrameAfterStop ==
    \A i \in 1 .. Len(encoder.runs) :
        encoder.runs[i].stopped =>
            /\ encoder.runs[i].frames = 0
            /\ ~encoder.runs[i].rearmed

(***************************************************************************)
(* C34: the buffer a transport passes to an asynchronous send stays valid  *)
(* and unmodified until the completion handler of the send has run: the    *)
(* encrypted frame built in TransportAES256::Send exists when the handler  *)
(* of the raw send runs, and a send that completed with success put the    *)
(* bytes of that frame on the wire.                                        *)
(***************************************************************************)
C34_SendBufferOutlivesSend ==
    \A n \in Nodes : \A k \in 1 .. Len(send_completions[n]) :
        LET c == send_completions[n][k]
        IN  /\ c.buffer_alive
            /\ ~c.fault
            /\ c.ec = "ok" => c.wire = send_log[n][c.send].handed[1].data

(***************************************************************************)
(* C35: after Stop() has returned on the secure transport the application  *)
(* receive callback is not invoked again: no run of HandleReceive made     *)
(* with the socket closed, the run for a datagram received before Stop()   *)
(* included, calls the user callback.                                      *)
(***************************************************************************)
C35_NoCallbackAfterStop ==
    \A n \in Nodes : \A i \in 1 .. Len(rx_log[n]) :
        ~rx_log[n][i].open => rx_log[n][i].calls = <<>>

(***************************************************************************)
(* C36: a UdpTransport has at most one receive outstanding on its one      *)
(* receive buffer in every reachable state, Start() called more than once  *)
(* included.                                                               *)
(***************************************************************************)
C36_OneReceiveOutstanding ==
    \A n \in Nodes : pending_receives[n] <= 1

(***************************************************************************)
(* C37: an exception raised in the application's receive callback never    *)
(* breaks the receive loop: whatever the callback throws, nothing leaves   *)
(* HandleReceive, the next receive is armed, and the exception is not      *)
(* reported as a decryption or authentication failure.                     *)
(***************************************************************************)
C37_CallbackExceptionContained ==
    \A n \in Nodes : \A i \in 1 .. Len(rx_log[n]) :
        (rx_log[n][i].calls # <<>> /\ CallbackThrows(rx_log[n][i].callback) # "none") =>
            /\ rx_log[n][i].escaped = "none"
            /\ rx_log[n][i].rearmed
            /\ rx_log[n][i].reported = <<>>

(***************************************************************************)
(* C38: the initial value of the 64-bit nonce counter of a TransportAES256 *)
(* is below 2^32: the counter of a transport that has not sent, and the    *)
(* counter value the first Send of a transport found, have the upper 32    *)
(* bits zero.                                                              *)
(***************************************************************************)
UpperHalf(v) == SubSeq(v, CounterBytes \div 2 + 1, CounterBytes)

C38_SeedBelow2To32 ==
    \A n \in Nodes :
        LET initial == IF send_log[n] = <<>> THEN current_iv_counter_[n]
                       ELSE send_log[n][1].iv_value
        IN  UpperHalf(initial) = <<0, 0, 0, 0>>

(***************************************************************************)
(* A transport constructed with the seed 0xFFFFFFFF has sent once: its     *)
(* counter has left the 32-bit range the seed was drawn from.              *)
(***************************************************************************)
C38_Witness ==
    \E n \in Nodes :
        /\ send_log[n] # <<>>
        /\ send_log[n][1].iv_value = U64FromU32(255, 255, 255, 255)
        /\ UpperHalf(current_iv_counter_[n]) = <<1, 0, 0, 0>>

=============================================================================
